---- MODULE Spec2Model ----
(***************************************************************************)
(* Model of the storage engine of biscuit (src/tsdb_fdb.py): the slotted   *)
(* ring store, the descriptor catalog and the transactional wrapper over   *)
(* the ordered key/value store (FoundationDB).                             *)
(*                                                                         *)
(* Representation                                                          *)
(*   None (Python)            Nil (-1) for an id, "" for a name, {} for    *)
(*                            tags, 0 for step/slots ("x or default" treats*)
(*                            None and 0 alike), Absent (<<>>) for a key   *)
(*                            that is not in the store                     *)
(*   meta value               <<step, slots, typ>>                         *)
(*   meta-info value          <<name, tags>>, tags a set of <<key, value>> *)
(*   slot record              <<window, value, flags>>                     *)
(*   id counter               its stored number, 0 when the key is absent  *)
(*                            (_allocate_metric_id treats both alike)      *)
(***************************************************************************)
EXTENDS Integers, Sequences, FiniteSets, TLC

\* ------------------------------------------------------------------ bounds
\* Number of API calls of one behaviour of Spec (the catalog).
MaxOps == 3
\* Number of API calls of one behaviour of RingSpec (the ring store).
MaxRingOps == 3
\* Greatest timestamp passed to a write or a read.
MaxTs == 4
\* calls per behaviour of CounterSpec
MaxCounterOps == 3
\* calls per behaviour of ApiSpec
MaxApiOps == 3
\* Calls in a behaviour of the lookup specification.
MaxFindOps == 4
\* Calls in a behaviour of the query specification.
MaxQueryOps == 4
\* Calls in a behaviour of UdfSpec, and rows of a column passed to a function.
MaxUdfOps == 1
MaxRows == 2
\* Calls in a behaviour of MetaSpec.
MaxMetaOps == 3
\* The largest ring _segments_for is applied to in SegSpec.
MaxSegSlots == 7
\* Calls in a behaviour of ScanSpec.
MaxScanOps == 3
\* Calls of the other callers in a behaviour of RewriteRaceSpec.
MaxRaceOps == 3
\* Rows of a partition a window function is applied to in WindowSpec.
MaxWindowRows == 3

\* ------------------------------------------------------- program constants
FLAG_VALID == 1
\* FdbTsdb(db, default_step, default_slots) as constructed by the tests.
DefaultStep == 1
DefaultSlots == 3
\* float32 keeps 24 bits of mantissa.
F32Exact == 16777216

Nil == -1
Absent == <<>>

\* ------------------------------------------------------------ input values
MetricIds == {1, 2}
Names == {"a", "b"}
TagDicts == {{}, {<<"env", "qa">>}, {<<"env", "dev">>}}
Typs == {0, 1}
StepArgs == {0, 2}
SlotArgs == {0, 2}
Timestamps == -1 .. MaxTs
Values == {5, 7}
\* Raw counter values: a reset (90 after 100) and the first integer that
\* float32 cannot hold.
CounterValues == {100, 90, F32Exact + 1}

\* Ids a key can carry: the explicit ones and those the counter hands out.
AllIds == MetricIds \cup (1 .. MaxOps + 1)
MaxSlots == DefaultSlots
SlotIdx == 0 .. (MaxSlots - 1)
DescKeys == Names \X TagDicts
\* Tag dicts with a second key, passed without a name (no descriptor is
\* keyed by them) to be merged into a meta-info.
AllTagDicts ==
    TagDicts \cup {{<<"dc", "x">>}, {<<"env", "qa">>, <<"dc", "x">>},
                   {<<"env", "dev">>, <<"dc", "x">>}}
\* (name, tags) as an ensure call passes them to the merge.
MergeArgs == (({""} \cup Names) \X TagDicts) \cup ({""} \X AllTagDicts)

\* ---------------------------------------------------------------- helpers
Min(a, b) == IF a <= b THEN a ELSE b

SeqToSet(q) == {q[i] : i \in 1 .. Len(q)}

\* x or default
OrDefault(x, d) == IF x = 0 THEN d ELSE x

\* struct.pack("<f", v) followed by unpack: round to the nearest float32
\* (ties to even).  Exact up to 2^24; between 2^24 and 2^25 the spacing is 2.
ToF32(v) ==
    IF v <= F32Exact /\ v >= -F32Exact THEN v
    ELSE IF v % 2 = 0 THEN v
    ELSE IF ((v - 1) \div 2) % 2 = 0 THEN v - 1 ELSE v + 1

\* ------------------------------------------------------------ the KV store
EmptyStore ==
    [ meta |-> [i \in AllIds |-> Absent],
      info |-> [i \in AllIds |-> Absent],
      desc |-> [d \in DescKeys |-> Nil],
      ctr  |-> 0,
      vals |-> [i \in AllIds |-> [s \in SlotIdx |-> Absent]] ]

MetaKey(id) == <<"meta", id>>
MetaInfoKey(id) == <<"info", id>>
DescriptorKey(name, tags) == <<"desc", name, tags>>
IdCounterKey == <<"ctr">>
ValueKey(id, slot) == <<"val", id, slot>>

\* A transaction: the store as the transaction sees it (its snapshot plus
\* its own writes), the keys it read and wrote, the exception it raised
\* ("" for none) and the value its function returned.
BeginTr(store) == [s |-> store, rd |-> {}, wr |-> {}, err |-> "", ret |-> Nil]

Raise(tr, e) == [tr EXCEPT !.err = e]
Reads(tr, keys) == [tr EXCEPT !.rd = @ \cup keys]
Return(tr, v) == [tr EXCEPT !.ret = v]

SetMeta(tr, id, m) ==
    [tr EXCEPT !.s.meta[id] = m, !.wr = @ \cup {MetaKey(id)}]
SetInfo(tr, id, v) ==
    [tr EXCEPT !.s.info[id] = v, !.wr = @ \cup {MetaInfoKey(id)}]
SetDesc(tr, name, tags, id) ==
    [tr EXCEPT !.s.desc[<<name, tags>>] = id,
               !.wr = @ \cup {DescriptorKey(name, tags)}]
SetCtr(tr, n) ==
    [tr EXCEPT !.s.ctr = n, !.wr = @ \cup {IdCounterKey}]
\* Mutant of SetVal: the value key leaves the metric id out, so the slot is
\* shared by all metrics.
SetValSharedSlot(tr, id, slot, rec) ==
    [tr EXCEPT !.s.vals = [i \in AllIds |-> [@[i] EXCEPT ![slot] = rec]],
               !.wr = @ \cup {ValueKey(i, slot) : i \in AllIds}]

SetVal(tr, id, slot, rec) ==
    [tr EXCEPT !.s.vals[id][slot] = rec, !.wr = @ \cup {ValueKey(id, slot)}]
ClearValues(tr, id) ==
    [tr EXCEPT !.s.vals[id] = [s \in SlotIdx |-> Absent],
               !.wr = @ \cup {ValueKey(id, s) : s \in SlotIdx}]

\* ------------------------------------------------------ descriptor catalog
\* _load_meta_tr: the stored <<step, slots, typ>> or Absent.
LoadMetaTr(tr, id) == tr.s.meta[id]

\* _load_meta_info_tr: the stored <<name, tags>> or Absent.  (The JSON
\* encoding of a dict of strings decodes to the same dict.)
LoadMetaInfoTr(tr, id) == tr.s.info[id]

\* Mutant of LookupDescriptorTr: the lookup never finds the descriptor.
LookupDescriptorMiss(tr, name, tags) == Nil

\* _lookup_descriptor_tr
LookupDescriptorTr(tr, name, tags) == tr.s.desc[<<name, tags>>]

TagKeysOf(tags) == {kv[1] : kv \in tags}

\* The loop of _ensure_meta_info over tags.items() raises when a key is
\* already set to another value.
TagConflict(stored, tags) ==
    \E kv \in tags : \E old \in stored : old[1] = kv[1] /\ old[2] # kv[2]

\* Mutant of EnsureMetaInfo: a tag key that is already set takes the new
\* value instead of raising.
EnsureMetaInfoRedefines(tr0, id, name, tags) ==
    LET tr      == Reads(tr0, {MetaInfoKey(id)})
        present == tr.s.info[id] # Absent
        info    == IF present THEN tr.s.info[id] ELSE <<"", {}>>
        kept    == {old \in info[2] : old[1] \notin TagKeysOf(tags)}
        newName == IF name # "" /\ info[1] = "" THEN name ELSE info[1]
    IN  IF name # "" /\ info[1] # "" /\ info[1] # name
          THEN Raise(tr, "name already registered")
        ELSE SetInfo(tr, id, <<newName, kept \cup tags>>)

\* _ensure_meta_info
EnsureMetaInfo(tr0, id, name, tags) ==
    LET tr      == Reads(tr0, {MetaInfoKey(id)})
        present == LoadMetaInfoTr(tr, id) # Absent
        info    == IF present THEN LoadMetaInfoTr(tr, id) ELSE <<"", {}>>
        current == info[1]
        merged  == info[2] \cup tags
        newName == IF name # "" /\ current = "" THEN name ELSE current
        changed == newName # current \/ (tags # {} /\ merged # info[2])
    IN  IF name # "" /\ current # "" /\ current # name
          THEN Raise(tr, "name already registered")
        ELSE IF tags # {} /\ TagConflict(info[2], tags)
          THEN Raise(tr, "tag already set")
        ELSE IF changed \/ ~present
          THEN SetInfo(tr, id, <<newName, IF tags # {} THEN merged ELSE info[2]>>)
        ELSE tr

\* Mutant of EnsureDescriptor: an existing binding is overwritten.
EnsureDescriptorRebinds(tr0, id, name, tags) ==
    IF name = "" THEN tr0
    ELSE SetDesc(Reads(tr0, {DescriptorKey(name, tags)}), name, tags, id)

\* _ensure_descriptor
EnsureDescriptor(tr0, id, name, tags) ==
    IF name = "" THEN tr0
    ELSE LET tr       == Reads(tr0, {DescriptorKey(name, tags)})
             existing == tr.s.desc[<<name, tags>>]
         IN  IF existing # Nil
               THEN IF existing # id
                      THEN Raise(tr, "descriptor already bound")
                      ELSE tr
               ELSE SetDesc(tr, name, tags, id)

\* Mutant of AllocateMetricId: the stored counter is not read, every
\* allocation starts from an unset counter.
AllocateMetricIdRestarts(tr0) ==
    LET tr == Reads(tr0, {IdCounterKey})
    IN  SetCtr(tr, 1)

\* _allocate_metric_id: the transaction after the counter is advanced; the
\* id handed out is its new value.
AllocateMetricId(tr0) ==
    LET tr == Reads(tr0, {IdCounterKey})
    IN  SetCtr(tr, tr.s.ctr + 1)

\* Mutant of EnsureMetaAndCatalog: only the type of a stored meta is compared.
EnsureMetaAndCatalogTypeOnly(tr0, id, typ, step, slots, name, tags) ==
    LET tr       == Reads(tr0, {MetaKey(id)})
        existing == tr.s.meta[id]
    IN  IF existing # Absent /\ existing[3] # typ
          THEN Raise(tr, "different metadata")
        ELSE LET tr1 == IF existing = Absent
                          THEN SetMeta(tr, id, <<step, slots, typ>>)
                          ELSE tr
                 tr2 == EnsureMetaInfo(tr1, id, name, tags)
             IN  IF tr2.err # "" THEN tr2
                 ELSE EnsureDescriptor(tr2, id, name, tags)

\* Mutant of EnsureMetaAndCatalog: a stored meta that differs is replaced.
EnsureMetaAndCatalogOverwrites(tr0, id, typ, step, slots, name, tags) ==
    LET tr       == Reads(tr0, {MetaKey(id)})
        existing == LoadMetaTr(tr, id)
        tr1      == IF existing # <<step, slots, typ>>
                      THEN SetMeta(tr, id, <<step, slots, typ>>)
                      ELSE tr
        tr2      == EnsureMetaInfo(tr1, id, name, tags)
    IN  IF tr2.err # "" THEN tr2
        ELSE EnsureDescriptor(tr2, id, name, tags)

\* The part ensure_metric and ensure_metric_descriptor share: check the
\* stored meta against (step, slots, typ) or store it, then merge the
\* meta-info and bind the descriptor.
EnsureMetaAndCatalog(tr0, id, typ, step, slots, name, tags) ==
    LET tr       == Reads(tr0, {MetaKey(id)})
        existing == LoadMetaTr(tr, id)
    IN  IF existing # Absent /\ existing # <<step, slots, typ>>
          THEN Raise(tr, "different metadata")
        ELSE LET tr1 == IF existing = Absent
                          THEN SetMeta(tr, id, <<step, slots, typ>>)
                          ELSE tr
                 tr2 == EnsureMetaInfo(tr1, id, name, tags)
             IN  IF tr2.err # "" THEN tr2
                 ELSE EnsureDescriptor(tr2, id, name, tags)

\* txn of ensure_metric
EnsureMetricTxn(tr, id, typ, step, slots, name, tags) ==
    EnsureMetaAndCatalog(tr, id, typ, step, slots, name, tags)

\* txn of ensure_metric_descriptor
EnsureMetricDescriptorTxn(tr0, metric_id, typ, step, slots, name, tags) ==
    LET trL        == IF name # "" THEN Reads(tr0, {DescriptorKey(name, tags)})
                      ELSE tr0
        existingId == IF name # "" THEN LookupDescriptorTr(trL, name, tags)
                      ELSE Nil
    IN  IF existingId # Nil
          THEN LET tr   == Reads(trL, {MetaKey(existingId)})
                   meta == LoadMetaTr(tr, existingId)
               IN  IF meta # Absent /\ meta[3] # typ
                     THEN Raise(tr, "different type")
                   ELSE Return(EnsureMetaInfo(tr, existingId, name, tags),
                               existingId)
        ELSE LET trA == IF metric_id = Nil THEN AllocateMetricId(trL) ELSE trL
                 mid == IF metric_id = Nil THEN trA.s.ctr ELSE metric_id
             IN  Return(EnsureMetaAndCatalog(trA, mid, typ, step, slots,
                                             name, tags), mid)

\* Mutant of DeleteMetricTxn: the slots of the metric are not cleared.
DeleteMetricKeepsValuesTxn(tr0, id, name, tags) ==
    LET tr == Reads(tr0, {MetaKey(id)})
    IN  IF LoadMetaTr(tr, id) = Absent THEN tr
        ELSE LET tr2 == [tr EXCEPT !.s.meta[id] = Absent,
                                   !.s.info[id] = Absent,
                                   !.wr = @ \cup {MetaKey(id), MetaInfoKey(id)}]
             IN  IF name # ""
                   THEN SetDesc(tr2, name, tags, Nil)
                   ELSE tr2

\* txn of delete_metric; name and tags were read from the meta-info by the
\* caller before the transaction.
DeleteMetricTxn(tr0, id, name, tags) ==
    LET tr == Reads(tr0, {MetaKey(id)})
    IN  IF LoadMetaTr(tr, id) = Absent THEN tr
        ELSE LET tr1 == ClearValues(tr, id)
                 tr2 == [tr1 EXCEPT !.s.meta[id] = Absent,
                                    !.s.info[id] = Absent,
                                    !.wr = @ \cup {MetaKey(id), MetaInfoKey(id)}]
             IN  IF name # ""
                   THEN SetDesc(tr2, name, tags, Nil)
                   ELSE tr2

\* -------------------------------------------------------------- ring store
\* Mutant of SlotFor: the slot is taken from the timestamp, not the window.
SlotForOfTs(ts, step, slots) == ts % slots

\* _slot_for
SlotFor(ts, step, slots) == (ts \div step) % slots

\* struct.pack("<I f B", window, value, flags) raises struct.error for a
\* window outside 0 .. 2^32-1.  Every timestamp of this model is far below
\* 2^32, so only the lower limit can be crossed.
WindowPacks(window) == window >= 0

\* Mutant of PackValueRecord: the value is stored without the float32
\* conversion.
PackValueRecordExact(window, value, flags) == <<window, value, flags>>

\* _pack_value_record followed by the struct.unpack of the reader.
PackValueRecord(window, value, flags) == <<window, ToF32(value), flags>>

\* Mutant of WriteValueTxn: a record of a newer window is not overwritten.
WriteValueKeepNewerTxn(tr0, id, ts, value) ==
    LET tr   == Reads(tr0, {MetaKey(id)})
        meta == tr.s.meta[id]
    IN  IF meta = Absent THEN Raise(tr, "metric not found")
        ELSE LET slot   == (ts \div meta[1]) % meta[2]
                 window == ts \div meta[1]
                 old    == tr.s.vals[id][slot]
             IN  IF window < 0 THEN Raise(tr, "struct.error")
                 ELSE IF old # Absent /\ old[1] > window THEN tr
                 ELSE SetVal(tr, id, slot, <<window, value, FLAG_VALID>>)

\* txn of _write_value, and of write_counter (the same steps with raw_value)
WriteValueTxn(tr0, id, ts, value) ==
    LET tr   == Reads(tr0, {MetaKey(id)})
        meta == LoadMetaTr(tr, id)
    IN  IF meta = Absent THEN Raise(tr, "metric not found")
        ELSE IF meta[1] <= 0 THEN Raise(tr, "step must be positive")
        ELSE IF meta[2] = 0 THEN Raise(tr, "ZeroDivisionError")
        \* with slots < 0 Python's % is 0 or negative, and a negative slot
        \* does not go into the unsigned key
        ELSE IF meta[2] < 0 /\ (ts \div meta[1]) % (-meta[2]) # 0
          THEN Raise(tr, "OverflowError")
        ELSE LET slot   == IF meta[2] < 0 THEN 0
                           ELSE SlotFor(ts, meta[1], meta[2])
                 window == ts \div meta[1]
             IN  IF ~WindowPacks(window) THEN Raise(tr, "struct.error")
                 ELSE SetVal(tr, id, slot,
                             PackValueRecord(window, value, FLAG_VALID))

\* Mutant of SegmentsFor: the segment that wraps to slot 0 is left out.
SegmentsForNoWrap(start_slot, count, slots) ==
    IF count <= 0 THEN <<>>
    ELSE << <<start_slot, Min(start_slot + count, slots) - 1>> >>

\* Mutant of SegmentsFor: the segment that wraps runs one slot too far.
SegmentsForLongWrap(start_slot, count, slots) ==
    IF count <= 0 THEN <<>>
    ELSE IF start_slot + count <= slots
      THEN << <<start_slot, start_slot + count - 1>> >>
    ELSE << <<start_slot, slots - 1>>,
            <<0, count - (slots - start_slot)>> >>

\* _segments_for
SegmentsFor(start_slot, count, slots) ==
    IF count <= 0 THEN <<>>
    ELSE IF start_slot + count <= slots
      THEN << <<start_slot, start_slot + count - 1>> >>
    ELSE << <<start_slot, slots - 1>>,
            <<0, (count - (slots - start_slot)) - 1>> >>

\* tr.get_range(value_key(id, lo), value_key(id, hi + 1)): the records that
\* are present, in key order.
RECURSIVE GetRange(_, _, _, _)
GetRange(tr, id, lo, hi) ==
    IF lo > hi THEN <<>>
    ELSE (IF lo \in SlotIdx /\ tr.s.vals[id][lo] # Absent
            THEN <<tr.s.vals[id][lo]>> ELSE <<>>)
         \o GetRange(tr, id, lo + 1, hi)

\* Mutant of KeepRecord: valid records are kept whatever their ts.
KeepRecordAnyTs(rec, start_ts, end_ts, step) == rec[3] % 2 = FLAG_VALID

\* The filter of _scan_segments on one record.
KeepRecord(rec, start_ts, end_ts, step) ==
    /\ rec[3] % 2 = FLAG_VALID
    /\ rec[1] * step >= start_ts
    /\ rec[1] * step <= end_ts

\* The rows _scan_segments appends for the records of one segment.
RECURSIVE RowsOf(_, _, _, _, _)
RowsOf(recs, start_ts, end_ts, typ, step) ==
    IF recs = <<>> THEN <<>>
    ELSE (IF KeepRecord(Head(recs), start_ts, end_ts, step)
            THEN << <<Head(recs)[1] * step, Head(recs)[2], typ>> >>
            ELSE <<>>)
         \o RowsOf(Tail(recs), start_ts, end_ts, typ, step)

\* rows.sort(key=lambda item: item[0]): a stable sort by ts.
RECURSIVE InsertRow(_, _)
InsertRow(sorted, row) ==
    IF sorted = <<>> THEN <<row>>
    ELSE IF row[1] < Head(sorted)[1] THEN <<row>> \o sorted
    ELSE <<Head(sorted)>> \o InsertRow(Tail(sorted), row)

RECURSIVE SortRows(_)
SortRows(rows) ==
    IF rows = <<>> THEN <<>>
    ELSE InsertRow(SortRows(SubSeq(rows, 1, Len(rows) - 1)), rows[Len(rows)])

RECURSIVE ScanAll(_, _, _, _, _, _, _)
ScanAll(tr, id, segments, start_ts, end_ts, typ, step) ==
    IF segments = <<>> THEN <<>>
    ELSE LET seg == Head(segments)
         IN  (IF seg[1] > seg[2] THEN <<>>
              ELSE RowsOf(GetRange(tr, id, seg[1], seg[2]),
                          start_ts, end_ts, typ, step))
             \o ScanAll(tr, id, Tail(segments), start_ts, end_ts, typ, step)

RECURSIVE SegmentKeys(_, _)
SegmentKeys(id, segments) ==
    IF segments = <<>> THEN {}
    ELSE {ValueKey(id, s) : s \in Head(segments)[1] .. Head(segments)[2]}
         \cup SegmentKeys(id, Tail(segments))

\* txn of read_range: _scan_segments; the rows are the returned value.
ScanSegments(tr, id, segments, start_ts, end_ts, typ, step) ==
    Return(Reads(tr, SegmentKeys(id, segments)),
           SortRows(ScanAll(tr, id, segments, start_ts, end_ts, typ, step)))

\* Mutant of RangeSegments: the scan starts at the slot of start_ts itself.
RangeSegmentsOfTs(meta, start_ts, end_ts) ==
    IF end_ts < start_ts \/ meta = Absent THEN <<>>
    ELSE LET slot_count == Min(meta[2], (end_ts \div meta[1])
                                        - (start_ts \div meta[1]) + 1)
         IN  IF slot_count <= 0 THEN <<>>
             ELSE IF (start_ts % meta[2]) + slot_count <= meta[2]
               THEN << <<start_ts % meta[2],
                         (start_ts % meta[2]) + slot_count - 1>> >>
             ELSE << <<start_ts % meta[2], meta[2] - 1>>,
                     <<0, (slot_count - (meta[2] - (start_ts % meta[2]))) - 1>> >>

\* Mutant of RangeSegments: the window of end_ts is not counted.
RangeSegmentsShort(meta, start_ts, end_ts) ==
    IF end_ts < start_ts \/ meta = Absent THEN <<>>
    ELSE LET start_window == start_ts \div meta[1]
             end_window   == end_ts \div meta[1]
             slot_count   == Min(meta[2], end_window - start_window)
         IN  IF end_window < start_window \/ slot_count <= 0 THEN <<>>
             ELSE SegmentsFor(start_window % meta[2], slot_count, meta[2])

\* read_range up to its scan: the segments to scan for the loaded meta,
\* <<>> when it returns [] before scanning.
RangeSegments(meta, start_ts, end_ts) ==
    IF end_ts < start_ts \/ meta = Absent THEN <<>>
    ELSE LET start_window == start_ts \div meta[1]
             end_window   == end_ts \div meta[1]
             slot_count   == Min(meta[2], end_window - start_window + 1)
         IN  IF end_window < start_window \/ slot_count <= 0 THEN <<>>
             ELSE SegmentsFor(start_window % meta[2], slot_count, meta[2])

\* read_range by one caller with no other caller in between: the meta is
\* loaded in one transaction and the segments are scanned in a second.
ReadRange(store, id, start_ts, end_ts) ==
    LET meta == LoadMetaTr(BeginTr(store), id)
        segs == RangeSegments(meta, start_ts, end_ts)
    IN  IF meta = Absent \/ segs = <<>> THEN <<>>
        ELSE ScanSegments(BeginTr(store), id, segs, start_ts, end_ts,
                          meta[3], meta[1]).ret

\* ------------------------------------------------- the API, one caller
\* What a call leaves behind: the store, the exception ("" for none) and
\* the returned value.
Result(store, err, ret) == [s |-> store, err |-> err, ret |-> ret]

\* Mutant of RunTransaction: the writes of a function that raised are kept.
RunTransactionNoCancel(store, tr) ==
    Result(tr.s, tr.err, IF tr.err = "" THEN tr.ret ELSE Nil)

\* _run_transaction with no other transaction in flight: commit when the
\* function returns, cancel (nothing is stored) when it raises.
RunTransaction(store, tr) ==
    IF tr.err = "" THEN Result(tr.s, "", tr.ret)
    ELSE Result(store, tr.err, Nil)

\* Stands for the 0xFFFFFFFF of _ensure_u32, which is beyond the integers TLC
\* can hold: the greatest metric_id, above every id a key of the model has.
U32Max == 1000000

\* _ensure_u32
EnsureU32(id) == id >= 0 /\ id <= U32Max

\* ensure_metric
EnsureMetricCall(store, id, typ, stepArg, slotsArg, name, tags) ==
    LET step  == OrDefault(stepArg, DefaultStep)
        slots == OrDefault(slotsArg, DefaultSlots)
    IN  IF ~EnsureU32(id) THEN Result(store, "metric_id must fit in uint32", Nil)
        ELSE IF step <= 0 \/ slots <= 0
          THEN Result(store, "step and slots must be positive", Nil)
        ELSE RunTransaction(store,
                 EnsureMetricTxn(BeginTr(store), id, typ, step, slots, name, tags))

\* Mutant of EnsureMetricDescriptorCall: the id is checked only where a key
\* is built from it, which a call that finds its descriptor bound never does.
EnsureMetricDescriptorLateCheck(store, metric_id, typ, stepArg, slotsArg, name, tags) ==
    LET step  == OrDefault(stepArg, DefaultStep)
        slots == OrDefault(slotsArg, DefaultSlots)
        bound == name # "" /\ store.desc[<<name, tags>>] # Nil
    IN  IF metric_id = Nil /\ name = ""
          THEN Result(store, "metric_id or name must be provided", Nil)
        ELSE IF metric_id # Nil /\ ~EnsureU32(metric_id) /\ ~bound
          THEN Result(store, "metric_id must fit in uint32", Nil)
        ELSE RunTransaction(store,
                 EnsureMetricDescriptorTxn(BeginTr(store), metric_id, typ,
                                           step, slots, name, tags))

\* ensure_metric_descriptor
EnsureMetricDescriptorCall(store, metric_id, typ, stepArg, slotsArg, name, tags) ==
    LET step  == OrDefault(stepArg, DefaultStep)
        slots == OrDefault(slotsArg, DefaultSlots)
    IN  IF metric_id # Nil /\ ~EnsureU32(metric_id)
          THEN Result(store, "metric_id must fit in uint32", Nil)
        ELSE IF metric_id = Nil /\ name = ""
          THEN Result(store, "metric_id or name must be provided", Nil)
        ELSE RunTransaction(store,
                 EnsureMetricDescriptorTxn(BeginTr(store), metric_id, typ,
                                           step, slots, name, tags))

\* write_gauge (typ 0) and write_counter (typ 1): the ensure transaction,
\* then the slot write in a second transaction.
WriteCall(store, typ, metric_id, ts, value, name, tags, stepArg, slotsArg) ==
    LET e == EnsureMetricDescriptorCall(store, metric_id, typ, stepArg,
                                        slotsArg, name, tags)
    IN  IF e.err # "" THEN e
        ELSE LET w == RunTransaction(e.s,
                          WriteValueTxn(BeginTr(e.s), e.ret, ts, value))
             IN  IF w.err # "" THEN w ELSE Result(w.s, "", e.ret)

\* delete_metric: the meta-info is loaded in a transaction of its own,
\* then the clearing transaction runs.
DeleteMetricCall(store, id) ==
    LET info == LoadMetaInfoTr(BeginTr(store), id)
        name == IF info = Absent THEN "" ELSE info[1]
        tags == IF info = Absent THEN {} ELSE info[2]
    IN  RunTransaction(store, DeleteMetricTxn(BeginTr(store), id, name, tags))

\* The replay loop of rewrite_metric_retention: one _write_value per row,
\* each in its own transaction; the first exception ends the loop.
\* Mutant of Replay: only the first row of the snapshot is written back.
ReplayFirstOnly(store, id, rows) ==
    IF rows = <<>> THEN Result(store, "", Nil)
    ELSE RunTransaction(store,
             WriteValueTxn(BeginTr(store), id, rows[1][1], rows[1][2]))

RECURSIVE Replay(_, _, _)
Replay(store, id, rows) ==
    IF rows = <<>> THEN Result(store, "", Nil)
    ELSE LET w == RunTransaction(store,
                      WriteValueTxn(BeginTr(store), id, Head(rows)[1],
                                    Head(rows)[2]))
         IN  IF w.err # "" THEN w ELSE Replay(w.s, id, Tail(rows))

\* Stands for the 2**63 - 1 of the full-range read: above every timestamp.
FullRangeEnd == 1000000

\* Mutant of RewriteMetricRetentionCall: the type of the metric is not
\* checked.
RewriteMetricRetentionAnyType(store, id, step, slots) ==
    LET meta == LoadMetaTr(BeginTr(store), id)
        info == LoadMetaInfoTr(BeginTr(store), id)
        name == IF info = Absent THEN "" ELSE info[1]
        tags == IF info = Absent THEN {} ELSE info[2]
    IN  IF step <= 0 \/ slots <= 0
          THEN Result(store, "step and slots must be positive", Nil)
        ELSE IF meta = Absent THEN Result(store, "metric not found", Nil)
        ELSE LET rows == ReadRange(store, id, 0, FullRangeEnd)
                 d    == DeleteMetricCall(store, id)
                 e    == EnsureMetricDescriptorCall(d.s, id, meta[3], step,
                                                    slots, name, tags)
             IN  IF e.err # "" THEN e ELSE Replay(e.s, id, rows)

\* rewrite_metric_retention
RewriteMetricRetentionCall(store, id, step, slots) ==
    LET meta == LoadMetaTr(BeginTr(store), id)
        info == LoadMetaInfoTr(BeginTr(store), id)
        name == IF info = Absent THEN "" ELSE info[1]
        tags == IF info = Absent THEN {} ELSE info[2]
    IN  IF step <= 0 \/ slots <= 0
          THEN Result(store, "step and slots must be positive", Nil)
        ELSE IF meta = Absent THEN Result(store, "metric not found", Nil)
        ELSE IF meta[3] # 0 THEN Result(store, "only gauge metrics", Nil)
        ELSE LET rows == ReadRange(store, id, 0, FullRangeEnd)
                 d    == DeleteMetricCall(store, id)
                 e    == EnsureMetricDescriptorCall(d.s, id, meta[3], step,
                                                    slots, name, tags)
             IN  IF e.err # "" THEN e ELSE Replay(e.s, id, rows)

\* ---------------------------------------------------------- state machine
VARIABLES
    db,     \* the key/value store
    last,   \* the call that ended last: its name, its metric_id argument,
            \* the exception it raised ("" for none) and what it returned
    nops,   \* number of calls made so far
    hist,   \* per metric id, the <<ts, value>> of the sample writes that
            \* succeeded since the metric was created (history variable)
    first,  \* per descriptor key, the first id it was bound to (history)
    tx,     \* per caller, its transaction in flight (concurrent callers)
    out     \* per caller, the outcomes of its calls so far (history)

vars == <<db, last, nops, hist, first, tx, out>>

\* The callers of the behaviours with concurrency.
Procs == {"p", "q"}

NoTx == [op |-> "idle", args |-> <<>>, snap |-> EmptyStore, dirty |-> {},
         with |-> {}, fresh |-> FALSE]

NoCall == [op |-> "none", id |-> Nil, err |-> "", ret |-> Nil]

Init ==
    /\ db = EmptyStore
    /\ last = NoCall
    /\ nops = 0
    /\ hist = [i \in AllIds |-> <<>>]
    /\ first = [d \in DescKeys |-> Nil]
    /\ tx = [p \in Procs |-> NoTx]
    /\ out = [p \in Procs |-> <<>>]

\* The bookkeeping every call of a single caller shares.
Finish(op, id, res) ==
    /\ db' = res.s
    /\ last' = [op |-> op, id |-> id, err |-> res.err, ret |-> res.ret]
    /\ nops' = nops + 1
    /\ first' = [d \in DescKeys |->
                   IF first[d] = Nil THEN res.s.desc[d] ELSE first[d]]
    /\ UNCHANGED <<tx, out>>

EnsureMetric(id, typ, stepArg, slotsArg, name, tags) ==
    /\ Finish("ensure_metric", id,
              EnsureMetricCall(db, id, typ, stepArg, slotsArg, name, tags))
    /\ UNCHANGED hist

EnsureMetricDescriptor(metric_id, typ, stepArg, slotsArg, name, tags) ==
    /\ Finish("ensure_metric_descriptor", metric_id,
              EnsureMetricDescriptorCall(db, metric_id, typ, stepArg, slotsArg,
                                         name, tags))
    /\ UNCHANGED hist

Write(op, typ, metric_id, ts, value, name, tags, stepArg, slotsArg) ==
    LET res == WriteCall(db, typ, metric_id, ts, value, name, tags,
                         stepArg, slotsArg)
    IN  /\ Finish(op, metric_id, res)
        /\ hist' = IF res.err = ""
                     THEN [hist EXCEPT ![res.ret] = Append(@, <<ts, value>>)]
                     ELSE hist

WriteGauge(metric_id, ts, value, name, tags, stepArg, slotsArg) ==
    Write("write_gauge", 0, metric_id, ts, value, name, tags, stepArg, slotsArg)

WriteCounter(metric_id, ts, raw_value, name, tags, stepArg, slotsArg) ==
    Write("write_counter", 1, metric_id, ts, raw_value, name, tags,
          stepArg, slotsArg)

ReadRangeOp(id, start_ts, end_ts) ==
    /\ Finish("read_range", id,
              Result(db, "", ReadRange(db, id, start_ts, end_ts)))
    /\ UNCHANGED hist

DeleteMetric(id) ==
    /\ Finish("delete_metric", id, DeleteMetricCall(db, id))
    /\ hist' = [hist EXCEPT ![id] = <<>>]

\* The rewrite passes its argument checks and reaches the snapshot read.
RewriteRuns(store, id, step, slots) ==
    /\ step > 0 /\ slots > 0
    /\ store.meta[id] # Absent
    /\ store.meta[id][3] = 0

RowsAsWrites(rows) == [i \in 1 .. Len(rows) |-> <<rows[i][1], rows[i][2]>>]

RewriteMetricRetention(id, step, slots) ==
    /\ Finish("rewrite_metric_retention", id,
              RewriteMetricRetentionCall(db, id, step, slots))
    /\ hist' = IF RewriteRuns(db, id, step, slots)
                 THEN [hist EXCEPT ![id] =
                          RowsAsWrites(ReadRange(db, id, 0, FullRangeEnd))]
                 ELSE hist

\* ------------------------------------------------ inputs of the behaviours
NameArgs == {""} \cup Names
IdArgs == {Nil} \cup MetricIds
\* (step, slots) as passed by a caller; 0 stands for an omitted argument.
RetentionArgs == {<<0, 0>>, <<2, 2>>}
RingRetentionArgs == {<<0, 0>>, <<0, 2>>, <<2, 2>>}

\* Spec: the catalog.  Metrics are registered by id and by name, with and
\* without tags, written to, read, deleted and rewritten.
Next ==
    \/ \E typ \in Typs, r \in RetentionArgs :
          nops < MaxOps /\ EnsureMetric(1, typ, r[1], r[2], "", {})
    \/ \E id \in MetricIds, name \in NameArgs, tags \in TagDicts :
          nops < MaxOps /\ EnsureMetric(id, 0, 0, 0, name, tags)
    \/ \E typ \in Typs, r \in RetentionArgs :
          nops < MaxOps /\ EnsureMetricDescriptor(Nil, typ, r[1], r[2], "a", {})
    \/ \E id \in {Nil, 1}, tags \in TagDicts :
          nops < MaxOps /\ EnsureMetricDescriptor(id, 0, 0, 0, "a", tags)
    \/ \E id \in {Nil, 1}, ts \in {-1, 0, MaxTs} :
          nops < MaxOps
          /\ WriteGauge(id, ts, 5, IF id = Nil THEN "a" ELSE "", {}, 0, 0)
    \/ \E ts \in {0, 1} :
          nops < MaxOps /\ WriteCounter(1, ts, 7, "", {}, 0, 0)
    \/ \E id \in MetricIds :
          nops < MaxOps /\ ReadRangeOp(id, 0, MaxTs)
    \/ \E id \in MetricIds :
          nops < MaxOps /\ DeleteMetric(id)
    \/ \E id \in MetricIds, r \in {<<2, 2>>, <<1, 3>>} :
          nops < MaxOps /\ RewriteMetricRetention(id, r[1], r[2])

Spec == Init /\ [][Next]_vars

\* Ids outside 0 .. U32Max (Nil, which stands for None, is not an id).
BadIds == {-2, U32Max + 1}

\* ApiSpec: the argument checks and the identity rules.  Two metrics of
\* either type are registered under names and tags that collide, by good
\* and by bad ids, written to, rewritten and deleted.
ApiNext ==
    \/ \E id \in MetricIds, typ \in Typs :
          nops < MaxApiOps
          /\ EnsureMetric(id, typ, 0, 0, IF id = 1 THEN "a" ELSE "b", {})
    \/ \E id \in MetricIds, tags \in {{<<"env", "qa">>}, {<<"env", "dev">>}} :
          nops < MaxApiOps /\ EnsureMetric(id, 0, 0, 0, "", tags)
    \/ \E id \in IdArgs, name \in Names :
          nops < MaxApiOps /\ EnsureMetricDescriptor(id, 0, 0, 0, name, {})
    \/ \E id \in BadIds :
          nops < MaxApiOps /\ EnsureMetric(id, 0, 0, 0, "a", {})
    \/ \E id \in BadIds :
          nops < MaxApiOps /\ WriteGauge(id, 0, 5, "a", {}, 0, 0)
    \/ \E id \in MetricIds, ts \in {0, 1} :
          nops < MaxApiOps
          /\ WriteGauge(id, ts, 5, IF id = 1 THEN "a" ELSE "b", {}, 0, 0)
    \/ \E id \in MetricIds :
          nops < MaxApiOps /\ WriteCounter(id, 0, 7, "", {}, 0, 0)
    \/ \E id \in MetricIds, r \in {<<2, 2>>, <<0, 2>>} :
          nops < MaxApiOps /\ RewriteMetricRetention(id, r[1], r[2])
    \/ \E id \in MetricIds :
          nops < MaxApiOps /\ DeleteMetric(id)

ApiSpec == Init /\ [][ApiNext]_vars

\* RingSpec: the ring store.  One gauge, created by its first write, is
\* written at any timestamps in any order, read, deleted and rewritten.
RingNext ==
    \/ \E ts \in Timestamps, v \in Values, r \in RingRetentionArgs :
          nops < MaxRingOps /\ WriteGauge(1, ts, v, "", {}, r[1], r[2])
    \/ \E s \in 0 .. MaxTs, e \in 0 .. MaxTs :
          nops < MaxRingOps /\ ReadRangeOp(1, s, e)
    \/ nops < MaxRingOps /\ DeleteMetric(1)
    \/ nops < MaxRingOps /\ RewriteMetricRetention(1, 2, 3)

RingSpec == Init /\ [][RingNext]_vars

\* CounterSpec: one counter with step 1 and 2 slots, created by its first
\* write, takes raw values that go down and values float32 cannot hold, and
\* is read and deleted.
CounterNext ==
    \/ \E ts \in {0, 1, MaxTs}, v \in CounterValues :
          nops < MaxCounterOps /\ WriteCounter(1, ts, v, "", {}, 0, 2)
    \/ nops < MaxCounterOps /\ ReadRangeOp(1, 0, MaxTs)
    \/ nops < MaxCounterOps /\ DeleteMetric(1)

CounterSpec == Init /\ [][CounterNext]_vars

\* ================================================================ claims
\* Vocabulary of the ring claims, for a metric id whose meta is stored.
StepOf(id) == db.meta[id][1]
SlotsOf(id) == db.meta[id][2]
TypOf(id) == db.meta[id][3]
Exists(id) == db.meta[id] # Absent
Gauges == {id \in AllIds : Exists(id) /\ TypOf(id) = 0}

WindowOfWrite(id, i) == hist[id][i][1] \div StepOf(id)
WrittenWindows(id) == {WindowOfWrite(id, i) : i \in 1 .. Len(hist[id])}

MaxOf(S) == CHOOSE x \in S : \A y \in S : y <= x
MinOf(S) == CHOOSE x \in S : \A y \in S : x <= y

\* The index of the last write of id into window w.
LastWriteTo(id, w) ==
    MaxOf({i \in 1 .. Len(hist[id]) : WindowOfWrite(id, i) = w})

\* The windows of W in ascending order.
RECURSIVE Ascending(_)
Ascending(W) ==
    IF W = {} THEN <<>> ELSE <<MinOf(W)>> \o Ascending(W \ {MinOf(W)})

\* The n greatest elements of W.
RECURSIVE Greatest(_, _)
Greatest(W, n) ==
    IF n = 0 \/ W = {} THEN {}
    ELSE {MaxOf(W)} \cup Greatest(W \ {MaxOf(W)}, n - 1)

\* The rows of the samples of id written into the windows W, in window
\* order, each with the value written last into its window.
SamplesOf(id, W) ==
    LET ws == Ascending(W)
    IN  [k \in 1 .. Len(ws) |->
            <<ws[k] * StepOf(id), hist[id][LastWriteTo(id, ws[k])][2], TypOf(id)>>]

FullRead(id) == ReadRange(db, id, 0, FullRangeEnd)

\* The windows written span a range of width greater than slots.
SpansMoreThanRing(id) ==
    /\ hist[id] # <<>>
    /\ MaxOf(WrittenWindows(id)) - MinOf(WrittenWindows(id)) + 1 > SlotsOf(id)

\* C1 as stated: for a gauge with slots = S, after any sequence of writes
\* (any order, gaps allowed) whose windows span a range wider than S, the
\* read over the full history returns exactly the S samples with the
\* greatest windows among those written (all of them when fewer than S
\* windows were written), in ascending window order.
C1_AnyOrderKeepsNewest ==
    \A id \in Gauges :
        SpansMoreThanRing(id) =>
            FullRead(id) =
                SamplesOf(id, Greatest(WrittenWindows(id), SlotsOf(id)))

\* The writes of id came in non-decreasing window order.
WrittenInWindowOrder(id) ==
    \A i \in 1 .. Len(hist[id]) - 1 :
        WindowOfWrite(id, i) <= WindowOfWrite(id, i + 1)

\* No window between the least and the greatest written one was skipped.
NoGaps(id) ==
    \A w \in MinOf(WrittenWindows(id)) .. MaxOf(WrittenWindows(id)) :
        w \in WrittenWindows(id)

\* C1 amended: for a gauge with slots = S, after samples were written in
\* non-decreasing window order into a gap-free range of more than S
\* windows, the read over the full history returns exactly the S samples
\* with the greatest windows, in ascending window order.
C1_InOrderKeepsNewest ==
    \A id \in Gauges :
        (SpansMoreThanRing(id) /\ WrittenInWindowOrder(id) /\ NoGaps(id)) =>
            FullRead(id) =
                SamplesOf(id, Greatest(WrittenWindows(id), SlotsOf(id)))

\* A ring has wrapped under in-order gap-free writes.
C1_Witness ==
    /\ 1 \in Gauges
    /\ SpansMoreThanRing(1) /\ WrittenInWindowOrder(1) /\ NoGaps(1)
    /\ last.op = "write_gauge" /\ last.err = ""
    /\ Len(FullRead(1)) = SlotsOf(1)
    /\ Len(hist[1]) > SlotsOf(1)
\* The writes of id were one sample at each of n consecutive timestamps,
\* in increasing order.
ConsecutiveRun(id) ==
    /\ hist[id] # <<>>
    /\ \A i \in 1 .. Len(hist[id]) : hist[id][i][1] = hist[id][1][1] + i - 1

\* C2: for a metric with slots = S and step = 1, after one sample was
\* written at each of T, T+1, ..., T+n-1 in increasing order, n > S,
\* read_range(T, T+n-1) returns exactly the last S samples, with their
\* values, in ascending timestamp order.
C2_WrapKeepsLastS ==
    \A id \in AllIds :
        (Exists(id) /\ StepOf(id) = 1 /\ ConsecutiveRun(id)
                    /\ Len(hist[id]) > SlotsOf(id)) =>
            LET n == Len(hist[id])
                T == hist[id][1][1]
                S == SlotsOf(id)
            IN  ReadRange(db, id, T, T + n - 1) =
                    [k \in 1 .. S |-> <<T + n - S + k - 1,
                                        hist[id][n - S + k][2], TypOf(id)>>]

\* A ring of step 1 has wrapped under consecutive writes.
C2_Witness ==
    /\ Exists(1) /\ StepOf(1) = 1 /\ ConsecutiveRun(1)
    /\ Len(hist[1]) > SlotsOf(1)
    /\ last.op = "write_gauge" /\ last.err = ""

\* The indexes of the writes of id that went to slot s.
WritesToSlot(id, s) ==
    {i \in 1 .. Len(hist[id]) : WindowOfWrite(id, i) % SlotsOf(id) = s}

\* The row read_range makes of a slot record.
RowOf(id, rec) == <<rec[1] * StepOf(id), rec[2], TypOf(id)>>

\* C3: last writer wins per slot.  Every slot of a metric holds exactly the
\* (window, value) of the most recent write whose window mod slots is that
\* slot, whether that window is older or newer than the one it replaced;
\* a slot nothing was written to is empty; and a full read returns the
\* records of the slots and nothing else.
C3_LastWriterWins ==
    \A id \in AllIds :
        Exists(id) =>
            /\ \A s \in SlotIdx :
                  IF s < SlotsOf(id) /\ WritesToSlot(id, s) # {}
                    THEN LET i == MaxOf(WritesToSlot(id, s))
                         IN  db.vals[id][s] = <<WindowOfWrite(id, i),
                                                hist[id][i][2], FLAG_VALID>>
                    ELSE db.vals[id][s] = Absent
            /\ SeqToSet(FullRead(id)) =
                  {RowOf(id, db.vals[id][s]) :
                       s \in {x \in SlotIdx : db.vals[id][x] # Absent}}

\* A write of an older window has replaced a newer one in its slot.
C3_Witness ==
    \E i \in 1 .. Len(hist[1]), j \in 1 .. Len(hist[1]) :
        /\ Exists(1) /\ i < j
        /\ WindowOfWrite(1, j) < WindowOfWrite(1, i)
        /\ WindowOfWrite(1, j) % SlotsOf(1) = WindowOfWrite(1, i) % SlotsOf(1)
        /\ j = MaxOf(WritesToSlot(1, WindowOfWrite(1, j) % SlotsOf(1)))

ReadTimes == 0 .. MaxTs

\* C4: every sample read_range(id, start_ts, end_ts) returns has a ts that
\* is a multiple of the metric's step and lies in start_ts .. end_ts,
\* whatever the ring holds.
C4_RowsInRange ==
    \A id \in AllIds : \A s \in ReadTimes, e \in ReadTimes :
        \A row \in SeqToSet(ReadRange(db, id, s, e)) :
            /\ row[1] % StepOf(id) = 0
            /\ s <= row[1] /\ row[1] <= e

\* A read has scanned a slot whose valid record lies outside the range it
\* was asked for, and returned a sample.
C4_Witness ==
    /\ last.op = "read_range" /\ last.ret # <<>>
    /\ Len(last.ret) < Cardinality({s \in SlotIdx : db.vals[1][s] # Absent})
    /\ \E s \in ReadTimes, e \in ReadTimes :
          /\ last.ret = ReadRange(db, 1, s, e)
          /\ \E x \in SlotIdx :
                /\ ValueKey(1, x) \in SegmentKeys(1, RangeSegments(db.meta[1], s, e))
                /\ db.vals[1][x] # Absent
                /\ ~KeepRecord(db.vals[1][x], s, e, StepOf(1))

\* The writes of id whose record is still in its slot.
Surviving(id) ==
    {i \in 1 .. Len(hist[id]) :
        i = MaxOf(WritesToSlot(id, WindowOfWrite(id, i) % SlotsOf(id)))}

\* C5 as stated: every sample written at ts (any ts, any positive step) is
\* returned with ts equal to the written ts by every read_range(start_ts,
\* end_ts) with start_ts <= ts <= end_ts issued before its slot is
\* overwritten.
C5_TsReconstructed ==
    \A id \in AllIds :
        Exists(id) =>
            \A i \in Surviving(id) : \A s \in ReadTimes, e \in ReadTimes :
                (s <= hist[id][i][1] /\ hist[id][i][1] <= e) =>
                    <<hist[id][i][1], hist[id][i][2], TypOf(id)>>
                        \in SeqToSet(ReadRange(db, id, s, e))

\* ts rounded down to a multiple of step.
AlignedTs(ts, step) == (ts \div step) * step

\* C5 amended: a sample written at ts is returned with the ts rounded down
\* to a multiple of step (the written ts itself when it is a multiple of
\* step), by every read_range(start_ts, end_ts) whose range holds that
\* rounded ts and that is issued before the slot is overwritten; and every
\* returned sample is such a written sample.
C5_TsReconstructedAligned ==
    \A id \in AllIds :
        Exists(id) =>
            LET surv == Surviving(id)
                ReadAs(i) == <<AlignedTs(hist[id][i][1], StepOf(id)),
                               hist[id][i][2], TypOf(id)>>
            IN  /\ \A i \in surv :
                      hist[id][i][1] % StepOf(id) = 0 =>
                          ReadAs(i)[1] = hist[id][i][1]
                /\ \A s \in ReadTimes, e \in ReadTimes :
                      LET rows == SeqToSet(ReadRange(db, id, s, e))
                      IN  /\ \A i \in surv :
                                (s <= ReadAs(i)[1] /\ ReadAs(i)[1] <= e) =>
                                    ReadAs(i) \in rows
                          /\ \A row \in rows : \E i \in surv : row = ReadAs(i)

\* A sample written at a ts that is no multiple of the step was read back.
C5_Witness ==
    /\ Exists(1) /\ StepOf(1) = 2
    /\ last.op = "read_range" /\ last.ret # <<>>
    /\ \E i \in Surviving(1) :
          /\ hist[1][i][1] % 2 = 1
          /\ last.ret[1][1] = hist[1][i][1] - 1
\* ------------------------------------------------------- catalog claims
\* The arguments the catalog claims range over (0: argument omitted, which
\* stands for the default step 1 and the default slots 3).
StepChoices == {0, 2}
SlotChoices == {0, 2}

\* The (step, slots, typ) an ensure call asks for.
Triple(st, sl, typ) ==
    <<OrDefault(st, DefaultStep), OrDefault(sl, DefaultSlots), typ>>

\* C6 as stated: for an existing metric, every later ensure call for it
\* (ensure_metric, ensure_metric_descriptor with its metric_id, or
\* ensure_metric_descriptor reaching it by a bound name and tags) fails when
\* its (step, slots, type) differs in any component, and succeeds leaving
\* the whole store unchanged when the triple is identical.
C6_EnsureChecksTriple ==
    \A id \in AllIds : \A typ \in Typs, st \in StepChoices, sl \in SlotChoices,
                          name \in NameArgs, tags \in TagDicts :
        Exists(id) =>
            LET same == Triple(st, sl, typ) = db.meta[id]
                byId == EnsureMetricCall(db, id, typ, st, sl, name, tags)
                byDesc == EnsureMetricDescriptorCall(db, id, typ, st, sl,
                                                     name, tags)
                byName == EnsureMetricDescriptorCall(db, Nil, typ, st, sl,
                                                     name, tags)
                toId == name = "" \/ db.desc[<<name, tags>>] \in {Nil, id}
                bound == name # "" /\ db.desc[<<name, tags>>] = id
            IN  /\ IF same THEN byId.err = "" /\ byId.s = db
                           ELSE byId.err # ""
                /\ toId => IF same THEN byDesc.err = "" /\ byDesc.s = db
                                   ELSE byDesc.err # ""
                /\ bound => IF same THEN byName.err = "" /\ byName.s = db
                                    ELSE byName.err # ""

\* The call passes no name and no tags, or the name and tags the metric
\* carries, whose descriptor is bound to the metric.
RestatesIdentity(id, name, tags) ==
    \/ name = "" /\ tags = {}
    \/ name # "" /\ db.info[id] = <<name, tags>> /\ db.desc[<<name, tags>>] = id

\* C6 amended: for an existing metric, (1) every ensure_metric call for it,
\* and every ensure_metric_descriptor call with its metric_id whose name
\* and tags are not bound, fails and leaves the store unchanged when its
\* (step, slots, type) differs in any component; (2) an
\* ensure_metric_descriptor call that reaches the metric by a bound name and
\* tags fails when the type differs and does not look at step and slots (it
\* ends as the same call with the stored step and slots does); (3) every
\* such call with the identical triple that passes no name and no tags, or
\* the metric's stored name and tags with their descriptor bound to it,
\* succeeds and leaves the whole store unchanged.
C6_EnsureChecksTripleById ==
    \A id \in {i \in AllIds : Exists(i)} :
        \A typ \in Typs, st \in StepChoices, sl \in SlotChoices,
           name \in NameArgs, tags \in TagDicts :
            LET same == Triple(st, sl, typ) = db.meta[id]
                byId == EnsureMetricCall(db, id, typ, st, sl, name, tags)
                byDesc == EnsureMetricDescriptorCall(db, id, typ, st, sl,
                                                     name, tags)
                unbound == name = "" \/ db.desc[<<name, tags>>] = Nil
                bound == name # "" /\ db.desc[<<name, tags>>] = id
            IN  /\ ~same => byId.err = "different metadata" /\ byId.s = db
                /\ (~same /\ unbound) =>
                      byDesc.err = "different metadata" /\ byDesc.s = db
                /\ bound =>
                      \A mid \in {Nil, id} :
                         LET r == EnsureMetricDescriptorCall(db, mid, typ, st,
                                                             sl, name, tags)
                         IN  /\ typ # TypOf(id) =>
                                   r.err = "different type" /\ r.s = db
                             /\ r = EnsureMetricDescriptorCall(db, mid, typ,
                                       StepOf(id), SlotsOf(id), name, tags)
                /\ (same /\ RestatesIdentity(id, name, tags)) =>
                      /\ byId.err = "" /\ byId.s = db
                      /\ byDesc.err = "" /\ byDesc.s = db /\ byDesc.ret = id

\* An ensure call with another triple has been rejected for a metric that
\* is also reachable by a bound name.
C6_Witness ==
    /\ last.op \in {"ensure_metric", "ensure_metric_descriptor"}
    /\ last.err = "different metadata"
    /\ last.id # Nil /\ Exists(last.id)
    /\ \E d \in DescKeys : db.desc[d] = last.id

\* C7: ensure_metric_descriptor without metric_id is idempotent when
\* repeated: whenever a call for (name, tags) succeeds, the identical call
\* made next returns the same id, allocates no id and changes nothing.
C7_EnsureDescriptorIdempotent ==
    \A typ \in Typs, st \in StepChoices, sl \in SlotChoices,
       name \in Names, tags \in TagDicts :
        LET once == EnsureMetricDescriptorCall(db, Nil, typ, st, sl, name, tags)
            again == EnsureMetricDescriptorCall(once.s, Nil, typ, st, sl,
                                                name, tags)
        IN  once.err = "" =>
                /\ again.err = ""
                /\ again.ret = once.ret
                /\ again.s.ctr = once.s.ctr
                /\ again.s = once.s

\* A call without metric_id has allocated an id and bound the descriptor,
\* and the identical call repeated in this state returns that id.
C7_Witness ==
    /\ last.op = "ensure_metric_descriptor" /\ last.id = Nil /\ last.err = ""
    /\ db.ctr >= 1 /\ last.ret = db.ctr
    /\ \E d \in DescKeys :
          /\ db.desc[d] = last.ret
          /\ EnsureMetricDescriptorCall(db, Nil, TypOf(last.ret), StepOf(last.ret),
                 SlotsOf(last.ret), d[1], d[2]).ret = last.ret

\* C9 as stated: once a descriptor (N, T) is bound to id X, in no later
\* state is it bound to an id different from X.
C9_BindingPermanent ==
    \A d \in DescKeys : db.desc[d] # Nil => db.desc[d] = first[d]

\* C9 amended: a binding is never overwritten by an ensure or a write.
\* While (N, T) is bound to X, no ensure_metric, ensure_metric_descriptor,
\* write_gauge or write_counter call changes the binding; delete_metric
\* leaves it or clears it, and rewrite_metric_retention, which deletes and
\* re-creates its metric, leaves it, clears it or binds it to the rewritten
\* metric.  Only after it was cleared can (N, T) be bound again, possibly
\* to another id.
C9_BindingNotOverwritten ==
    LET Bound == {d \in DescKeys : db.desc[d] # Nil}
        Kept(store) == \A d \in Bound : store.desc[d] = db.desc[d]
    IN  Bound # {} =>
        /\ \A id \in IdArgs, typ \in Typs, name \in NameArgs, tags \in TagDicts :
              /\ id # Nil =>
                    Kept(EnsureMetricCall(db, id, typ, 0, 0, name, tags).s)
              /\ Kept(EnsureMetricDescriptorCall(db, id, typ, 0, 0, name, tags).s)
              /\ Kept(WriteCall(db, typ, id, 0, 5, name, tags, 0, 0).s)
        /\ \A id \in MetricIds :
              LET del == DeleteMetricCall(db, id).s
                  rew == RewriteMetricRetentionCall(db, id, 2, 2).s
              IN  \A d \in Bound :
                      /\ del.desc[d] \in {db.desc[d], Nil}
                      /\ rew.desc[d] \in {db.desc[d], Nil, id}

\* A descriptor that delete_metric had cleared is bound to a second id, and
\* an ensure call that tries to bind it to yet another id is refused.
C9_Witness ==
    \E d \in DescKeys :
        /\ first[d] # Nil /\ db.desc[d] # Nil /\ db.desc[d] # first[d]
        /\ \E id \in MetricIds :
              /\ id # db.desc[d]
              /\ EnsureMetricCall(db, id, 0, 0, 0, d[1], d[2]).err # ""

\* Nothing of metric id is left in the store.
Cleared(store, id) ==
    /\ store.meta[id] = Absent
    /\ store.info[id] = Absent
    /\ \A s \in SlotIdx : store.vals[id][s] = Absent
    /\ \A d \in DescKeys : store.desc[d] # id

\* C10: after delete_metric(id) returns for an existing metric, the store
\* holds no slot record, no meta, no meta-info for id and no descriptor
\* binding whose value is id.
C10_DeleteClearsAll ==
    [][\A id \in MetricIds :
          (last'.op = "delete_metric" /\ last'.id = id /\ nops' = nops + 1
           /\ Exists(id)) => Cleared(db', id)]_vars

\* ------------------------------------------------------ concurrent callers
\* What a committing transaction stores: the values of the keys it wrote.
CommitWrites(store, tr) ==
    [ meta |-> [i \in AllIds |->
                  IF MetaKey(i) \in tr.wr THEN tr.s.meta[i] ELSE store.meta[i]],
      info |-> [i \in AllIds |->
                  IF MetaInfoKey(i) \in tr.wr THEN tr.s.info[i]
                  ELSE store.info[i]],
      desc |-> [d \in DescKeys |->
                  IF DescriptorKey(d[1], d[2]) \in tr.wr THEN tr.s.desc[d]
                  ELSE store.desc[d]],
      ctr  |-> IF IdCounterKey \in tr.wr THEN tr.s.ctr ELSE store.ctr,
      vals |-> [i \in AllIds |-> [s \in SlotIdx |->
                  IF ValueKey(i, s) \in tr.wr THEN tr.s.vals[i][s]
                  ELSE store.vals[i][s]]] ]

InFlight(p) == tx[p].op # "idle"

\* The transaction of caller p, run on the snapshot of its read version:
\* that of ensure_metric_descriptor, or that of _write_value.
TxnOf(p) ==
    LET a == tx[p].args
    IN  IF tx[p].op = "write_value"
          THEN WriteValueTxn(BeginTr(tx[p].snap), a[1], a[2], a[3])
        ELSE EnsureMetricDescriptorTxn(BeginTr(tx[p].snap), a[1], a[2],
                                       DefaultStep, DefaultSlots, a[3], a[4])

\* The commit fails when a key the transaction read was written by a
\* transaction that committed after its read version; a transaction that
\* wrote nothing always commits.
Conflicts(p, tr) == tr.wr # {} /\ tr.rd \cap tx[p].dirty # {}

\* Caller p enters ensure_metric_descriptor and its transaction takes its
\* read version.
Begin(p, metric_id, typ, name, tags) ==
    /\ ~InFlight(p)
    /\ tx' = [r \in Procs |->
                IF r = p
                  THEN [op |-> "ensure_metric_descriptor",
                        args |-> <<metric_id, typ, name, tags>>,
                        snap |-> db, dirty |-> {},
                        with |-> {<<q, Len(out[q]) + 1>> :
                                     q \in {x \in Procs \ {p} : InFlight(x)}},
                        fresh |-> db.desc[<<name, tags>>] = Nil]
                ELSE IF InFlight(r)
                  THEN [tx[r] EXCEPT !.with = @ \cup {<<p, Len(out[p]) + 1>>}]
                ELSE tx[r]]
    /\ nops' = nops + 1
    /\ UNCHANGED <<db, last, hist, first, out>>

\* Caller p is in _write_value (the sample write of write_gauge, after its
\* ensure_metric_descriptor has returned id) and its transaction takes its
\* read version.
BeginWrite(p, id, ts, value) ==
    /\ ~InFlight(p)
    /\ tx' = [r \in Procs |->
                IF r = p
                  THEN [op |-> "write_value", args |-> <<id, ts, value>>,
                        snap |-> db, dirty |-> {},
                        with |-> {<<q, Len(out[q]) + 1>> :
                                     q \in {x \in Procs \ {p} : InFlight(x)}},
                        fresh |-> db.meta[id] = Absent]
                ELSE IF InFlight(r)
                  THEN [tx[r] EXCEPT !.with = @ \cup {<<p, Len(out[p]) + 1>>}]
                ELSE tx[r]]
    /\ nops' = nops + 1
    /\ UNCHANGED <<db, last, hist, first, out>>

\* What the call of caller p ends with.
Outcome(p, err, ret) ==
    [op |-> tx[p].op, args |-> tx[p].args, err |-> err, ret |-> ret,
     with |-> tx[p].with, fresh |-> tx[p].fresh]

\* The function returned and tr.commit().wait() succeeded.
CommitOk(p) ==
    /\ InFlight(p)
    /\ LET tr == TxnOf(p)
       IN  /\ tr.err = ""
           /\ ~Conflicts(p, tr)
           /\ db' = CommitWrites(db, tr)
           /\ out' = [out EXCEPT ![p] = Append(@, Outcome(p, "", tr.ret))]
           /\ tx' = [r \in Procs |->
                       IF r = p THEN NoTx
                       ELSE IF InFlight(r)
                         THEN [tx[r] EXCEPT !.dirty = @ \cup tr.wr]
                       ELSE tx[r]]
    /\ UNCHANGED <<last, nops, hist, first>>

\* The function returned and tr.commit().wait() raised the conflict error:
\* the transaction is cancelled and the error reaches the caller.
CommitConflict(p) ==
    /\ InFlight(p)
    /\ LET tr == TxnOf(p)
       IN  /\ tr.err = ""
           /\ Conflicts(p, tr)
           /\ out' = [out EXCEPT ![p] = Append(@, Outcome(p, "not_committed", Nil))]
    /\ tx' = [tx EXCEPT ![p] = NoTx]
    /\ UNCHANGED <<db, last, nops, hist, first>>

\* The function raised: the transaction is cancelled and the error reaches
\* the caller.
Raises(p) ==
    /\ InFlight(p)
    /\ LET tr == TxnOf(p)
       IN  /\ tr.err # ""
           /\ out' = [out EXCEPT ![p] = Append(@, Outcome(p, tr.err, Nil))]
    /\ tx' = [tx EXCEPT ![p] = NoTx]
    /\ UNCHANGED <<db, last, nops, hist, first>>

ConcNext ==
    \/ \E p \in Procs, typ \in Typs, name \in Names, tags \in {{}, {<<"env", "qa">>}} :
          nops < MaxOps /\ Begin(p, Nil, typ, name, tags)
    \/ \E p \in Procs, ts \in {0, 1, DefaultSlots} :
          nops < MaxOps /\ BeginWrite(p, 1, ts, IF p = "p" THEN 5 ELSE 7)
    \/ \E p \in Procs : CommitOk(p)
    \/ \E p \in Procs : CommitConflict(p)
    \/ \E p \in Procs : Raises(p)

ConcSpec == Init /\ [][ConcNext]_vars

\* Two calls of ensure_metric_descriptor(None, name=N, tags=T) with the
\* same arguments whose transactions overlapped, both begun while (N, T)
\* was not bound.
RacedFirstCalls(p, i, q, j) ==
    /\ p # q
    /\ <<q, j>> \in out[p][i].with
    /\ out[p][i].args = out[q][j].args
    /\ out[p][i].args[1] = Nil
    /\ out[p][i].fresh /\ out[q][j].fresh

\* C8: when two callers concurrently run ensure_metric_descriptor(None,
\* name=N, tags=T) for a not-yet-bound (N, T), exactly one allocation is
\* committed (one binding for (N, T)) and both callers return the same id.
C8_ConcurrentCallersSameId ==
    \A p \in Procs, q \in Procs :
        \A i \in DOMAIN out[p], j \in DOMAIN out[q] :
            RacedFirstCalls(p, i, q, j) =>
                /\ out[p][i].err = "" /\ out[q][j].err = ""
                /\ out[p][i].ret = out[q][j].ret
                /\ db.desc[<<out[p][i].args[3], out[p][i].args[4]>>]
                      = out[p][i].ret

\* ---------------------------------------------------------- counter claims
Counters == {id \in AllIds : Exists(id) /\ TypOf(id) = 1}

\* What every slot of counter id holds and what a full read returns, when
\* Stored(v) is the value kept of a written raw value v: the record of the
\* last write whose window mod slots is the slot, lower than its
\* predecessor or not.
CounterHolds(id, Stored(_)) ==
    /\ \A s \in SlotIdx :
          IF s < SlotsOf(id) /\ WritesToSlot(id, s) # {}
            THEN LET i == MaxOf(WritesToSlot(id, s))
                 IN  db.vals[id][s] = <<WindowOfWrite(id, i),
                                        Stored(hist[id][i][2]), FLAG_VALID>>
            ELSE db.vals[id][s] = Absent
    /\ SeqToSet(FullRead(id)) =
          {<<WindowOfWrite(id, i) * StepOf(id), Stored(hist[id][i][2]), 1>> :
               i \in {MaxOf(WritesToSlot(id, s)) :
                         s \in {x \in SlotIdx : x < SlotsOf(id)
                                                /\ WritesToSlot(id, x) # {}}}}

RawValue(v) == v

\* C11 as stated: after write_counter(id, ts, v) the slot
\* (ts div step) mod slots holds value v, also when v is lower than the
\* previous sample, and read_range returns each surviving sample with
\* exactly the value that was written.
C11_CounterStoresRaw ==
    \A id \in Counters : CounterHolds(id, RawValue)

\* C11 amended: the slot holds, and read_range returns, the written raw
\* value rounded to the nearest float32 (the value itself when float32 can
\* represent it, as every integer up to 2^24), also when it is lower than
\* the previous sample.
C11_CounterStoresRawAsF32 ==
    \A id \in Counters : CounterHolds(id, ToF32)

\* A counter went down from 100 to 90, took a value float32 cannot hold,
\* and both samples are read back.
C11_Witness ==
    /\ 1 \in Counters
    /\ last.op = "write_counter" /\ last.err = ""
    /\ \E i \in 1 .. Len(hist[1]) - 1 :
          /\ hist[1][i][2] = 100 /\ hist[1][i + 1][2] = 90
          /\ <<hist[1][i + 1][1], 90, 1>> \in SeqToSet(FullRead(1))
    /\ \E i \in 1 .. Len(hist[1]) :
          /\ ToF32(hist[1][i][2]) # hist[1][i][2]
          /\ <<hist[1][i][1], ToF32(hist[1][i][2]), 1>> \in SeqToSet(FullRead(1))

\* -------------------------------------------------------- retention claims
\* step and slots as a caller of rewrite_metric_retention can pass them.
RewriteStepArgs == {-1, 0, 2}
RewriteSlotArgs == {-1, 0, 2}

\* C12: rewrite_metric_retention called on a counter, on a metric that does
\* not exist, or with a non-positive step or slots fails and leaves the
\* whole store (meta, meta-info, descriptors, slot records) unchanged.
C12_RewriteOnlyGauges ==
    \A id \in AllIds, step \in RewriteStepArgs, slots \in RewriteSlotArgs :
        (~Exists(id) \/ TypOf(id) = 1 \/ step <= 0 \/ slots <= 0) =>
            LET r == RewriteMetricRetentionCall(db, id, step, slots)
            IN  r.err # "" /\ r.s = db

\* A rewrite of a counter that holds a sample has just been refused.
C12_Witness ==
    /\ last.op = "rewrite_metric_retention" /\ last.err = "only gauge metrics"
    /\ last.id \in Counters
    /\ \E s \in SlotIdx : db.vals[last.id][s] # Absent

\* The retentions the rewrite claims go to.
NewSteps == {1, 2}
NewSlots == {1, 2, 3}

\* A timestamp re-bucketed by step.
Rebucket(ts, step) == (ts \div step) * step

\* What the rewrite keeps whatever the samples are: it succeeds, the meta is
\* (step, slots, gauge), and the name, the tags and every descriptor bound
\* to the metric are as before.
RewriteKeepsIdentity(id, step, slots, r) ==
    /\ r.err = ""
    /\ r.s.meta[id] = <<step, slots, 0>>
    /\ r.s.info[id] = db.info[id]
    /\ \A d \in DescKeys : db.desc[d] = id => r.s.desc[d] = id

\* C13 as stated: after rewrite_metric_retention(id, step', slots') on a
\* gauge the meta is (step', slots', gauge), name, tags and descriptor
\* binding are preserved, and every sample a full-range read returned
\* before is returned by a full-range read afterwards, at its timestamp
\* re-bucketed by step'.
C13_RewriteKeepsSamples ==
    \A id \in Gauges, step \in NewSteps, slots \in NewSlots :
        LET r      == RewriteMetricRetentionCall(db, id, step, slots)
            before == SeqToSet(FullRead(id))
            after  == SeqToSet(ReadRange(r.s, id, 0, FullRangeEnd))
        IN  /\ RewriteKeepsIdentity(id, step, slots, r)
            /\ \A row \in before :
                  <<Rebucket(row[1], step), row[2], 0>> \in after

\* The rows of S that no later row of S follows into the same slot of a
\* ring of the given step and slots.
LastPerSlot(S, step, slots) ==
    {row \in S :
        ~ \E other \in S :
            /\ other[1] > row[1]
            /\ (other[1] \div step) % slots = (row[1] \div step) % slots}

\* C13 amended: the meta, name, tags and bindings as stated; the samples a
\* full-range read returned before are replayed in ascending timestamp
\* order into the new ring, so a full-range read afterwards returns, at
\* its timestamp re-bucketed by step', exactly each of them that no later
\* one follows into the same slot ((ts div step') mod slots') of the new
\* ring: all of them when they fall into distinct new slots.
C13_RewriteKeepsLastPerSlot ==
    \A id \in Gauges, step \in NewSteps, slots \in NewSlots :
        LET r      == RewriteMetricRetentionCall(db, id, step, slots)
            before == SeqToSet(FullRead(id))
            after  == SeqToSet(ReadRange(r.s, id, 0, FullRangeEnd))
        IN  /\ RewriteKeepsIdentity(id, step, slots, r)
            /\ after = {<<Rebucket(row[1], step), row[2], 0>> :
                           row \in LastPerSlot(before, step, slots)}

\* A named gauge that held two samples has been rewritten to a new step
\* in which they share a window, and one of them is left.
C13_Witness ==
    /\ last.op = "rewrite_metric_retention" /\ last.err = ""
    /\ last.id \in Gauges
    /\ Len(hist[last.id]) = 2 /\ Len(FullRead(last.id)) = 1
    /\ db.info[last.id] # Absent /\ db.info[last.id][1] # ""
    /\ db.desc[<<db.info[last.id][1], {}>>] = last.id
    /\ StepOf(last.id) = 2

\* ------------------------------------------------------- validation claims
\* (step, slots) with a negative component (0 cannot be told from an
\* omitted argument: "step or default" takes the default for both).
NegativeRetentions == {<<-1, 2>>, <<2, -1>>}

\* The call ended with an error and stored nothing.
Rejected(r) == r.err # "" /\ r.s = db

\* C14: every meta stored has step > 0 and slots > 0: every call of
\* ensure_metric, ensure_metric_descriptor, write_gauge or write_counter
\* that passes a non-positive step or slots is rejected and stores nothing.
C14_NonPositiveRejected ==
    \A id \in MetricIds, typ \in Typs, r \in NegativeRetentions :
        /\ Rejected(EnsureMetricCall(db, id, typ, r[1], r[2], "", {}))
        /\ Rejected(EnsureMetricDescriptorCall(db, id, typ, r[1], r[2], "", {}))
        /\ Rejected(WriteCall(db, typ, id, 0, 5, "", {}, r[1], r[2]))
        /\ \A i \in AllIds :
              LET m == EnsureMetricDescriptorCall(db, id, typ, r[1], r[2],
                                                  "", {}).s.meta[i]
              IN  m # Absent => m[1] > 0 /\ m[2] > 0

\* ---------------------------------------------------------- identity claims
\* The call redefines the stored name or the value of a stored tag key.
Redefines(id, name, tags) ==
    \/ name # "" /\ db.info[id][1] # "" /\ name # db.info[id][1]
    \/ TagConflict(db.info[id][2], tags)

\* The meta-info of id after name and tags were merged into it.
MergedInfo(id, name, tags) ==
    <<IF db.info[id][1] = "" THEN name ELSE db.info[id][1],
      db.info[id][2] \cup tags>>

\* C15 as stated: an ensure call on an existing metric (with its stored
\* step, slots and type) that supplies new tag keys adds them and keeps the
\* existing tags and the name; one that supplies a different non-empty
\* name, or a different value for a stored tag key, fails and leaves the
\* store unchanged.
C15_MetaInfoMerge ==
    \A id \in AllIds, a \in MergeArgs :
        Exists(id) =>
            \A r \in {EnsureMetricCall(db, id, TypOf(id), StepOf(id),
                                       SlotsOf(id), a[1], a[2]),
                      EnsureMetricDescriptorCall(db, id, TypOf(id), StepOf(id),
                                                 SlotsOf(id), a[1], a[2])} :
                IF Redefines(id, a[1], a[2])
                  THEN r.err # "" /\ r.s = db
                  ELSE r.err = "" /\ r.s.info[id] = MergedInfo(id, a[1], a[2])

\* A name is passed and its descriptor is bound to another metric than id.
BoundToOther(id, name, tags) ==
    name # "" /\ db.desc[<<name, tags>>] \notin {Nil, id}

\* What the merge makes of a call that reaches the meta-info of id.
Merges(id, name, tags, r) ==
    IF Redefines(id, name, tags)
      THEN r.err # "" /\ r.s = db
      ELSE r.err = "" /\ r.s.info[id] = MergedInfo(id, name, tags)

\* C15 amended: an ensure call on an existing metric (ensure_metric or
\* ensure_metric_descriptor with its id and its stored step, slots and
\* type, or ensure_metric_descriptor by a name and tags bound to it) whose
\* name and tags are not bound to another metric adds the tag keys not yet
\* present, sets the name when none is stored, and keeps the existing tags
\* and name; when it supplies a different non-empty name than the stored
\* one, or a different value for a stored tag key, it fails and leaves the
\* store unchanged.  When the name and tags are bound to another metric,
\* ensure_metric fails and leaves the store unchanged, and
\* ensure_metric_descriptor leaves the meta-info of the metric unchanged.
C15_MetaInfoMergeUnlessBoundElsewhere ==
    \A id \in AllIds, a \in MergeArgs :
        Exists(id) =>
            LET name   == a[1]
                tags   == a[2]
                byId   == EnsureMetricCall(db, id, TypOf(id), StepOf(id),
                                           SlotsOf(id), name, tags)
                byDesc == EnsureMetricDescriptorCall(db, id, TypOf(id),
                              StepOf(id), SlotsOf(id), name, tags)
                byName == EnsureMetricDescriptorCall(db, Nil, TypOf(id),
                              StepOf(id), SlotsOf(id), name, tags)
            IN  IF BoundToOther(id, name, tags)
                  THEN /\ byId.err # "" /\ byId.s = db
                       /\ byDesc.s.info[id] = db.info[id]
                  ELSE /\ Merges(id, name, tags, byId)
                       /\ Merges(id, name, tags, byDesc)
                       /\ (name # "" /\ db.desc[<<name, tags>>] = id) =>
                             Merges(id, name, tags, byName)

\* A metric named "a" took the tag env=qa in a second ensure call, and a
\* third call that sets env=dev has been refused.
C15_Witness ==
    /\ last.op = "ensure_metric" /\ last.err = "tag already set"
    /\ Exists(last.id)
    /\ db.info[last.id] = <<"a", {<<"env", "qa">>}>>

\* C16: every call of ensure_metric, ensure_metric_descriptor, write_gauge
\* or write_counter that passes an explicit metric_id B together with a
\* (name, tags) whose descriptor is bound to A # B fails, writes no sample
\* and changes nothing in the store.
C16_RebindRejected ==
    \A b \in MetricIds, name \in Names, tags \in TagDicts, typ \in Typs :
        BoundToOther(b, name, tags) =>
            /\ Rejected(EnsureMetricCall(db, b, typ, 0, 0, name, tags))
            /\ Rejected(EnsureMetricDescriptorCall(db, b, typ, 0, 0, name, tags))
            /\ Rejected(WriteCall(db, typ, b, 0, 5, name, tags, 0, 0))

\* The call was refused for its metric_id and stored nothing.
RefusedId(r) == r.err = "metric_id must fit in uint32" /\ r.s = db

\* C17: ensure_metric, ensure_metric_descriptor, write_gauge and
\* write_counter called with metric_id < 0 or metric_id > 2^32-1 raise and
\* store nothing, whatever name and tags they pass and whatever the store
\* holds.
C17_MetricIdFitsU32 ==
    \A id \in BadIds, typ \in Typs, name \in NameArgs, tags \in TagDicts :
        /\ RefusedId(EnsureMetricCall(db, id, typ, 0, 0, name, tags))
        /\ RefusedId(EnsureMetricDescriptorCall(db, id, typ, 0, 0, name, tags))
        /\ RefusedId(WriteCall(db, typ, id, 0, 5, name, tags, 0, 0))

\* A write with an id above the limit, under a name that is bound, has
\* been refused.
C17_Witness ==
    /\ last.op = "write_gauge" /\ last.id > U32Max
    /\ last.err = "metric_id must fit in uint32"
    /\ db.desc[<<"a", {}>>] # Nil

\* ------------------------------------------------------ independence claims
\* The write calls of the independence claim: by id, by name or both, at
\* one of two timestamps, to a metric of (typ, step, slots).
WriteArgs ==
    {a \in {<<i, n, ts>> : i \in IdArgs, n \in NameArgs, ts \in {0, 1}} :
        a[1] # Nil \/ a[2] # ""}

WriteTo(store, m, a, v) ==
    WriteCall(store, m[3], a[1], a[3], v, a[2], {}, m[1], m[2])

\* Everything the store holds of metric b.
OfMetric(store, b) ==
    <<store.meta[b], store.info[b], store.vals[b],
      {d \in DescKeys : store.desc[d] = b}>>

\* C18: a successful write_gauge or write_counter to an existing metric A
\* (a write that resolves to A and returns it) leaves the meta, meta-info,
\* descriptor bindings and every slot record of every other metric B
\* unchanged, and writes to A and to B end in the same store in either
\* order.
C18_WritesIndependent ==
    \A A \in AllIds, a1 \in WriteArgs :
        Exists(A) =>
            LET w1 == WriteTo(db, db.meta[A], a1, 5)
            IN  (w1.err = "" /\ w1.ret = A) =>
                    /\ \A B \in AllIds \ {A} : OfMetric(w1.s, B) = OfMetric(db, B)
                    \* each pair of metrics once: the two orders are compared
                    /\ \A B \in {b \in AllIds : b > A /\ Exists(b)},
                          a2 \in WriteArgs :
                          LET w2 == WriteTo(db, db.meta[B], a2, 7)
                          IN  (w2.err = "" /\ w2.ret = B) =>
                                  LET w12 == WriteTo(w1.s, db.meta[B], a2, 7)
                                      w21 == WriteTo(w2.s, db.meta[A], a1, 5)
                                  IN  (/\ w12.err = "" /\ w12.ret = B
                                       /\ w21.err = "" /\ w21.ret = A) =>
                                          w12.s = w21.s

\* A metric that held a sample has been written to a second time while
\* another metric holds a sample of its own.
C18_Witness ==
    /\ last.op = "write_gauge" /\ last.err = ""
    /\ Len(hist[last.ret]) >= 2
    /\ \E B \in AllIds \ {last.ret} :
          /\ Exists(B) /\ hist[B] # <<>>
          /\ \E s \in SlotIdx : db.vals[B][s] # Absent

\* -------------------------------------------------------- concurrent writes
\* Two sample writes to the same metric whose transactions overlapped,
\* both begun when the metric was stored.
RacedWrites(p, i, q, j) ==
    /\ p # q
    /\ <<q, j>> \in out[p][i].with
    /\ out[p][i].op = "write_value" /\ out[q][j].op = "write_value"
    /\ out[p][i].args[1] = out[q][j].args[1]
    /\ ~out[p][i].fresh /\ ~out[q][j].fresh
    /\ Exists(out[p][i].args[1])

\* The slot a finished write of an existing metric went to.
SlotOfWrite(o) == (o.args[2] \div StepOf(o.args[1])) % SlotsOf(o.args[1])

\* C19: of two concurrent sample writes to the same slot of the same
\* metric one commits and the other aborts with a conflict that reaches
\* its caller (never both commit); two concurrent writes to different
\* slots both commit.
C19_SameSlotWritesConflict ==
    \A p \in Procs, q \in Procs :
        \A i \in DOMAIN out[p], j \in DOMAIN out[q] :
            RacedWrites(p, i, q, j) =>
                IF SlotOfWrite(out[p][i]) = SlotOfWrite(out[q][j])
                  THEN {out[p][i].err, out[q][j].err} = {"", "not_committed"}
                  ELSE out[p][i].err = "" /\ out[q][j].err = ""

\* ------------------------------------------------------- atomicity claims
\* C20: whenever ensure_metric or ensure_metric_descriptor raises
\* (metadata mismatch, name or tag redefinition, descriptor bound to
\* another id, a bad argument), the store after the call equals the store
\* before it, the id counter included even when an id had been allocated
\* inside the failed transaction.
C20_FailedEnsureChangesNothing ==
    \A id \in IdArgs, typ \in Typs, r \in RetentionArgs,
       name \in NameArgs, tags \in TagDicts :
        /\ id # Nil =>
              LET e == EnsureMetricCall(db, id, typ, r[1], r[2], name, tags)
              IN  e.err # "" => e.s = db
        /\ LET e == EnsureMetricDescriptorCall(db, id, typ, r[1], r[2],
                                               name, tags)
           IN  e.err # "" => e.s = db

\* An ensure_metric_descriptor call without metric_id has failed on the
\* meta of the id it had allocated, and the id counter is where it was.
C20_Witness ==
    /\ last.op = "ensure_metric_descriptor" /\ last.id = Nil
    /\ last.err = "different metadata"
    /\ db.ctr = 0 /\ Exists(1)

\* ---------------------------------------------------------------------
\* C21: a metric is created on first write.

FirstWriteTs == {0, 1}

\* The write r created metric id with the type and the given-or-default
\* step and slots, stored the sample under it and returned it.
CreatedByWrite(r, id, typ, st, sl, ts) ==
    /\ r.err = "" /\ r.ret = id
    /\ r.s.meta[id] = Triple(st, sl, typ)
    /\ <<AlignedTs(ts, OrDefault(st, DefaultStep)), ToF32(5), typ>>
           \in SeqToSet(ReadRange(r.s, id, 0, MaxTs))

\* C21: write_gauge / write_counter for a metric_id that has no meta (its
\* name, if one is passed, not bound to any id), or for an unbound name
\* without metric_id, creates the metric with the type of the call and the
\* given-or-default step and slots, stores the sample and returns the id
\* under which it is readable; by name alone the id is the id counter's
\* next value.
C21_CreatedOnFirstWrite ==
    \A typ \in Typs, r \in RetentionArgs, ts \in FirstWriteTs :
        /\ \A id \in MetricIds, name \in NameArgs :
              (~Exists(id) /\ (name = "" \/ db.desc[<<name, {}>>] = Nil)) =>
                  CreatedByWrite(WriteCall(db, typ, id, ts, 5, name, {},
                                           r[1], r[2]),
                                 id, typ, r[1], r[2], ts)
        /\ \A name \in Names :
              db.desc[<<name, {}>>] = Nil =>
                  LET w == WriteCall(db, typ, Nil, ts, 5, name, {}, r[1], r[2])
                  IN  /\ CreatedByWrite(w, db.ctr + 1, typ, r[1], r[2], ts)
                      /\ w.s.ctr = db.ctr + 1

\* ---------------------------------------------------------------------
\* Catalog lookup: list_metrics and find_metrics.

\* list_metrics reads at most this many meta keys; stands for 10_000.
ListLimit == 3
FindIds == 1 .. (ListLimit + 1)

\* The first n elements of a set of ids in key order (ids are big-endian
\* in the key, so key order is id order).
RECURSIVE FirstKeys(_, _)
FirstKeys(S, n) ==
    IF S = {} \/ n = 0 THEN <<>>
    ELSE LET m == CHOOSE x \in S : \A y \in S : x <= y
         IN  <<m>> \o FirstKeys(S \ {m}, n - 1)

\* One entry of list_metrics.
MetricRow(store, id) ==
    LET info == store.info[id]
    IN  [metric_id |-> id,
         name      |-> IF info = Absent THEN "" ELSE info[1],
         tags      |-> IF info = Absent THEN {} ELSE info[2],
         type      |-> store.meta[id][3],
         step      |-> store.meta[id][1],
         slots     |-> store.meta[id][2]]

\* list_metrics; the final sort by metric_id finds the rows in id order.
ListMetrics(store) ==
    LET ids == FirstKeys({i \in AllIds : store.meta[i] # Absent}, ListLimit)
    IN  [k \in 1 .. Len(ids) |-> MetricRow(store, ids[k])]

\* metric_tags.get(k), as the set of the values found (empty for None).
TagsGet(tags, k) == {p[2] : p \in {q \in tags : q[1] = k}}

\* Mutant of RowMatches: a requested tag matches by its key alone.
RowMatchesKeyOnly(m, name, tags) ==
    /\ ~(name # "" /\ m.name # name)
    /\ ~(\E t \in tags : TagsGet(m.tags, t[1]) = {})

RowMatches(m, name, tags) ==
    /\ ~(name # "" /\ m.name # name)
    /\ ~(\E t \in tags : TagsGet(m.tags, t[1]) # {t[2]})

\* Mutant of FindLoop: the limit is never hit.
RECURSIVE FindLoopNoLimit(_, _, _, _, _)
FindLoopNoLimit(metrics, name, tags, limit, results) ==
    IF metrics = <<>> THEN [results |-> results, hit_limit |-> FALSE]
    ELSE FindLoopNoLimit(Tail(metrics), name, tags, limit,
             IF RowMatches(Head(metrics), name, tags)
               THEN Append(results, Head(metrics)) ELSE results)

\* The loop of find_metrics; limit 0 stands for no limit.
RECURSIVE FindLoop(_, _, _, _, _)
FindLoop(metrics, name, tags, limit, results) ==
    IF metrics = <<>> THEN [results |-> results, hit_limit |-> FALSE]
    ELSE IF ~RowMatches(Head(metrics), name, tags)
      THEN FindLoop(Tail(metrics), name, tags, limit, results)
    ELSE LET grown == Append(results, Head(metrics))
         IN  IF limit # 0 /\ Len(grown) >= limit
               THEN [results |-> grown, hit_limit |-> TRUE]
               ELSE FindLoop(Tail(metrics), name, tags, limit, grown)

FindMetrics(store, name, tags, limit) ==
    FindLoop(ListMetrics(store), name, tags, limit, <<>>)

\* A find_metrics call; it reads and changes nothing.
FindMetricsOp(name, tags, limit) ==
    /\ Finish("find_metrics", Nil,
              Result(db, "", FindMetrics(db, name, tags, limit)))
    /\ UNCHANGED hist

\* The cap _resolve_metric_ids_from_selectors passes as limit; stands for 500.
QueryCap == 2

\* ---------------------------------------------------------------------
\* The /query endpoint: selector resolution, placeholder substitution.

\* raise HTTPException(status_code=400, detail=...)
Http400(detail) ==
    [status |-> 400, detail |-> detail, ids |-> <<>>, alias_map |-> <<>>,
     sql |-> <<>>, ran |-> <<>>]

\* f"S{idx + 1}" for the idx-th selector, counted from 1 here.
DefaultAlias(idx) ==
    CASE idx = 1 -> "S1" [] idx = 2 -> "S2" [] OTHER -> "S3"

\* _resolve_metric_ids_from_selectors: the loop from selector idx on.
RECURSIVE ResolveLoop(_, _, _, _, _)
ResolveLoop(store, selectors, idx, metric_ids, alias_map) ==
    IF idx > Len(selectors)
      THEN [status |-> 200, detail |-> "",
            ids |-> Ascending(SeqToSet(metric_ids)), alias_map |-> alias_map,
            sql |-> <<>>, ran |-> <<>>]
    ELSE LET sel   == selectors[idx]
             alias == IF sel.alias # "" THEN sel.alias ELSE DefaultAlias(idx)
             found == FindMetrics(store, sel.metric, sel.tags, QueryCap)
             ids   == [k \in 1 .. Len(found.results) |->
                          found.results[k].metric_id]
         IN  IF sel.metric = "" THEN Http400("selector.metric is required")
             ELSE IF alias \in DOMAIN alias_map
               THEN Http400("duplicate selector alias")
             ELSE IF ids = <<>> THEN Http400("did not match any metrics")
             ELSE IF found.hit_limit THEN Http400("matched too many metrics")
             ELSE ResolveLoop(store, selectors, idx + 1, metric_ids \o ids,
                              alias_map @@ (alias :> ids))

ResolveMetricIdsFromSelectors(store, selectors) ==
    ResolveLoop(store, selectors, 1, <<>>, <<>>)

\* An SQL text is a sequence of pieces: plain text, or {{v}} with v the
\* text between the braces.
Text(v) == [kind |-> "text", v |-> v]
Braces(v) == [kind |-> "braces", v |-> v]

\* The names _ALIAS_PATTERN ([A-Za-z0-9_]+ between the braces) matches,
\* among the names used here.
WordAliases == {"A", "B", "S1", "S2"}

\* str(id)
IdText(id) ==
    CASE id = 1 -> "1" [] id = 2 -> "2" [] id = 3 -> "3" [] id = 4 -> "4"
      [] id = 5 -> "5" [] OTHER -> "6"

\* Mutant of ReplaceLoop: the first id of the alias is taken however many
\* ids it has.
RECURSIVE ReplaceLoopFirstId(_, _, _, _)
ReplaceLoopFirstId(sql, k, alias_map, done) ==
    IF k > Len(sql)
      THEN [status |-> 200, detail |-> "", ids |-> <<>>,
            alias_map |-> alias_map, sql |-> done, ran |-> <<>>]
    ELSE IF sql[k].kind = "braces" /\ sql[k].v \in WordAliases
      THEN IF sql[k].v \notin DOMAIN alias_map
             THEN Http400("unknown selector alias in sql")
           ELSE ReplaceLoopFirstId(sql, k + 1, alias_map,
                    Append(done, Text(IdText(alias_map[sql[k].v][1]))))
    ELSE ReplaceLoopFirstId(sql, k + 1, alias_map, Append(done, sql[k]))

\* _replace_alias_placeholders: _ALIAS_PATTERN.sub(replacer, sql) from
\* piece k on; the replacer raises at the first match it refuses.
RECURSIVE ReplaceLoop(_, _, _, _)
ReplaceLoop(sql, k, alias_map, done) ==
    IF k > Len(sql)
      THEN [status |-> 200, detail |-> "", ids |-> <<>>,
            alias_map |-> alias_map, sql |-> done, ran |-> <<>>]
    ELSE IF sql[k].kind = "braces" /\ sql[k].v \in WordAliases
      THEN IF sql[k].v \notin DOMAIN alias_map
             THEN Http400("unknown selector alias in sql")
           ELSE IF Len(alias_map[sql[k].v]) # 1
             THEN Http400("must resolve to exactly one metric")
           ELSE ReplaceLoop(sql, k + 1, alias_map,
                    Append(done, Text(IdText(alias_map[sql[k].v][1]))))
    ELSE ReplaceLoop(sql, k + 1, alias_map, Append(done, sql[k]))

ReplaceAliasPlaceholders(sql, alias_map) == ReplaceLoop(sql, 1, alias_map, <<>>)

\* POST /query.  engineFails is whether engine.run_sql raises on the SQL
\* it is handed; ran is what it was handed.
QueryCall(store, payload, engineFails) ==
    IF payload.start_ts > payload.end_ts
      THEN Http400("start_ts must be <= end_ts")
    ELSE LET res == IF payload.selectors # <<>>
                      THEN ResolveMetricIdsFromSelectors(store,
                                                         payload.selectors)
                      ELSE [status |-> 200, detail |-> "", ids |-> <<>>,
                            alias_map |-> <<>>, sql |-> <<>>, ran |-> <<>>]
             computed   == res.ids
             provided   == payload.metric_ids
             metric_ids == Ascending(SeqToSet(IF computed # <<>>
                                                THEN computed ELSE provided))
             rep == IF DOMAIN res.alias_map # {}
                      THEN ReplaceAliasPlaceholders(payload.sql, res.alias_map)
                      ELSE [res EXCEPT !.sql = payload.sql]
         IN  IF res.status = 400 THEN res
             ELSE IF /\ computed # <<>> /\ provided # <<>>
                     /\ SeqToSet(provided) # SeqToSet(computed)
               THEN Http400("metric_ids do not match selectors")
             ELSE IF metric_ids = <<>>
               THEN Http400("metric_ids or selectors must resolve")
             ELSE IF rep.status = 400 THEN rep
             ELSE [status |-> IF engineFails THEN 400 ELSE 200,
                   detail |-> IF engineFails THEN "engine" ELSE "",
                   ids |-> metric_ids, alias_map |-> res.alias_map,
                   sql |-> rep.sql, ran |-> rep.sql]

\* A /query request; it reads and changes nothing.
QueryOp(payload, engineFails) ==
    /\ Finish("query", Nil,
              Result(db, "", QueryCall(db, payload, engineFails)))
    /\ UNCHANGED hist

\* (name, tags) of the ensure calls that fill the catalog.
FindEnsureArgs ==
    {<<"a", {}>>, <<"a", {<<"env", "qa">>}>>, <<"b", {}>>,
     <<"", {<<"dc", "x">>}>>, <<"", {<<"env", "dev">>}>>}

Sel(metric, tags, alias) == [metric |-> metric, tags |-> tags, alias |-> alias]

\* The /query requests made: without selectors, with one, with two.
QueryPayloads ==
    {[start_ts |-> 0, end_ts |-> 1, selectors |-> s, metric_ids |-> m,
      sql |-> q] :
        s \in {<<>>, <<Sel("a", {}, "A")>>,
                <<Sel("a", {<<"env", "qa">>}, ""), Sel("b", {}, "B")>>},
        m \in {<<>>, <<1>>},
        q \in {<<Text("SELECT"), Braces("A")>>, <<Braces("B")>>}}
    \cup {[start_ts |-> 1, end_ts |-> 0, selectors |-> <<>>,
           metric_ids |-> <<1>>, sql |-> <<Text("SELECT")>>]}

\* FindSpec: the catalog is filled with named and tagged metrics, some are
\* deleted, and it is searched.
FindNext ==
    \/ \E id \in FindIds, a \in FindEnsureArgs :
          nops < MaxFindOps /\ EnsureMetric(id, 0, 0, 0, a[1], a[2])
    \/ \E id \in FindIds :
          nops < MaxFindOps /\ DeleteMetric(id)
    \/ \E tags \in {{}, {<<"env", "qa">>}}, limit \in {0, QueryCap} :
          nops < MaxFindOps /\ FindMetricsOp("a", tags, limit)

FindSpec == Init /\ [][FindNext]_vars

\* QuerySpec: named metrics are registered and /query requests are made.
QueryNext ==
    \/ \E id \in FindIds,
          a \in {<<"a", {}>>, <<"a", {<<"env", "qa">>}>>, <<"b", {}>>} :
          nops < MaxQueryOps /\ EnsureMetric(id, 0, 0, 0, a[1], a[2])
    \/ \E payload \in QueryPayloads, engineFails \in BOOLEAN :
          nops < MaxQueryOps /\ QueryOp(payload, engineFails)

QuerySpec == Init /\ [][QueryNext]_vars

\* ---------------------------------------------------------------------
\* C22: find_metrics returns exactly the matching metrics.

FindTags ==
    {{}, {<<"env", "qa">>}, {<<"env", "dev">>}, {<<"dc", "x">>},
     {<<"env", "qa">>, <<"dc", "x">>}}

StoredName(id) == IF db.info[id] = Absent THEN "" ELSE db.info[id][1]
StoredTags(id) == IF db.info[id] = Absent THEN {} ELSE db.info[id][2]

\* The existing metrics the search asks for.
Matching(name, tags) ==
    {id \in AllIds : /\ Exists(id)
                     /\ name = "" \/ StoredName(id) = name
                     /\ tags \subseteq StoredTags(id)}

FoundIds(found) == {found.results[k].metric_id : k \in 1 .. Len(found.results)}

\* C22 as stated: find_metrics(name, tags) without a limit returns exactly
\* the existing metrics whose stored name equals name (when a name is
\* given) and whose stored tags contain every requested pair, each once.
C22_FindReturnsAllMatching ==
    \A name \in NameArgs, tags \in FindTags :
        LET found == FindMetrics(db, name, tags, 0)
        IN  /\ FoundIds(found) = Matching(name, tags)
            /\ Len(found.results) = Cardinality(Matching(name, tags))

\* The ids list_metrics reads: the ListLimit smallest existing ids.
Listed == SeqToSet(FirstKeys({i \in AllIds : Exists(i)}, ListLimit))

\* C22 amended: find_metrics(name, tags) without a limit returns, each once
\* and in id order, exactly those of the ListLimit existing metrics with the
\* smallest ids whose stored name equals name (when a name is given) and
\* whose stored tags contain every requested pair; a metric with more tags
\* matches and one missing a requested key or holding another value for it
\* does not.
C22_FindReturnsListedMatching ==
    \A name \in NameArgs, tags \in FindTags :
        LET found == FindMetrics(db, name, tags, 0)
        IN  /\ FoundIds(found) = Matching(name, tags) \cap Listed
            /\ Len(found.results) = Cardinality(FoundIds(found))
            /\ \A k \in 1 .. Len(found.results) - 1 :
                  found.results[k].metric_id < found.results[k + 1].metric_id
            /\ ~found.hit_limit

\* A metric with two tags is found by one of them, and a metric with
\* another value for the requested key exists and is left out.
C22_Witness ==
    \E id \in AllIds, other \in AllIds :
        /\ Exists(id) /\ Exists(other)
        /\ Cardinality(StoredTags(id)) = 2
        /\ <<"env", "dev">> \in StoredTags(other)
        /\ FoundIds(FindMetrics(db, "", {<<"env", "qa">>}, 0)) = {id}

\* ---------------------------------------------------------------------
\* C23: selector resolution for /query.

SelectorArgs ==
    {Sel(m, t, a) : m \in {"", "a", "b"}, t \in {{}, {<<"env", "qa">>}},
                    a \in {"", "A"}}
SelectorListArgs ==
    {<<s>> : s \in SelectorArgs} \cup {<<s, t>> : s \in SelectorArgs, t \in SelectorArgs}

\* C23 as stated: a selector is rejected with status 400 exactly when it
\* matches no metric or more metrics than the cap; one that matches between
\* 1 and cap metrics is accepted and its alias maps to all matched ids.
C23_RejectedWhenOverCap ==
    \A s \in {x \in SelectorArgs : x.metric # ""} :
        LET matched == Matching(s.metric, s.tags)
            r == ResolveMetricIdsFromSelectors(db, <<s>>)
            alias == IF s.alias # "" THEN s.alias ELSE DefaultAlias(1)
        IN  IF matched = {} \/ Cardinality(matched) > QueryCap
              THEN r.status = 400
              ELSE r.status = 200 /\ SeqToSet(r.alias_map[alias]) = matched

\* The alias the idx-th selector of a list goes by.
AliasOf(L, idx) == IF L[idx].alias # "" THEN L[idx].alias ELSE DefaultAlias(idx)

\* What the idx-th selector matches among the metrics list_metrics reads.
ListedMatches(L, idx) == Matching(L[idx].metric, L[idx].tags) \cap Listed

\* C23 amended: a selector list is rejected with status 400 exactly when
\* one of its selectors has an empty metric, repeats the alias of an
\* earlier selector, matches none of the listed metrics, or matches cap or
\* more of them (exactly cap matches are refused too); otherwise it is
\* accepted, every alias maps to all ids its selector matched, in id order,
\* and the ids returned are the sorted union.
C23_RejectedWhenCapHit ==
    \A L \in SelectorListArgs :
        LET r == ResolveMetricIdsFromSelectors(db, L)
            refused ==
                \E i \in 1 .. Len(L) :
                    \/ L[i].metric = ""
                    \/ \E j \in 1 .. i - 1 : AliasOf(L, j) = AliasOf(L, i)
                    \/ ListedMatches(L, i) = {}
                    \/ Cardinality(ListedMatches(L, i)) >= QueryCap
        IN  IF refused THEN r.status = 400
            ELSE /\ r.status = 200
                 /\ \A i \in 1 .. Len(L) :
                       r.alias_map[AliasOf(L, i)] = Ascending(ListedMatches(L, i))
                 /\ r.ids = Ascending(UNION {ListedMatches(L, i) :
                                               i \in 1 .. Len(L)})

\* A /query request has been refused for a selector that matches exactly
\* cap metrics.
C23_Witness ==
    /\ last.op = "query" /\ last.ret.status = 400
    /\ last.ret.detail = "matched too many metrics"
    /\ Cardinality(Matching("a", {})) = QueryCap
    /\ Cardinality(Matching("a", {<<"env", "qa">>})) = 1

\* ---------------------------------------------------------------------
\* C24: alias placeholder substitution.

SqlPieces == {Text("SELECT"), Braces("A"), Braces("B"), Braces("a-b")}
SqlArgs == {<<x>> : x \in SqlPieces} \cup {<<x, y>> : x \in SqlPieces, y \in SqlPieces}
AliasMapArgs ==
    {<<>>, "A" :> <<1>>, "A" :> <<1, 2>>, ("A" :> <<1>>) @@ ("B" :> <<2>>),
     "a-b" :> <<1>>}

\* The alias named by piece k of sql resolves to exactly one id.
ResolvesToOne(sql, k, alias_map) ==
    /\ sql[k].v \in DOMAIN alias_map
    /\ Len(alias_map[sql[k].v]) = 1

\* C24 as stated: every {{ALIAS}} in the SQL whose alias resolves to exactly
\* one metric_id is replaced by that id; a {{ALIAS}} naming an alias absent
\* from the alias map, or one resolving to another number of ids, fails the
\* request with status 400 and no SQL is executed.
C24_PlaceholdersSubstituted ==
    /\ \A sql \in SqlArgs, alias_map \in AliasMapArgs :
          LET r == ReplaceAliasPlaceholders(sql, alias_map)
              IsPlaceholder(k) == sql[k].kind = "braces"
          IN  IF \E k \in 1 .. Len(sql) :
                     IsPlaceholder(k) /\ ~ResolvesToOne(sql, k, alias_map)
                THEN r.status = 400
                ELSE /\ r.status = 200
                     /\ \A k \in 1 .. Len(sql) :
                           r.sql[k] =
                               IF IsPlaceholder(k)
                                 THEN Text(IdText(alias_map[sql[k].v][1]))
                                 ELSE sql[k]
    /\ \A payload \in QueryPayloads, engineFails \in BOOLEAN :
          LET q == QueryCall(db, payload, engineFails)
          IN  (\E k \in 1 .. Len(payload.sql) :
                  /\ payload.sql[k].kind = "braces"
                  /\ ~ResolvesToOne(payload.sql, k, q.alias_map)) =>
                      q.status = 400 /\ q.ran = <<>>

\* C24 amended: the substitution sees a {{ALIAS}} only when ALIAS is made of
\* letters, digits and underscores, and runs only when the request's
\* selectors gave a non-empty alias map.  Then every such placeholder whose
\* alias resolves to exactly one id is replaced by that id, and one naming
\* an absent alias or an alias with another number of ids fails the request
\* with 400 before any SQL is executed.  Braces around any other text are
\* left as they are, and a request without selectors hands its SQL to the
\* engine unchanged.
C24_WordPlaceholdersSubstituted ==
    /\ \A sql \in SqlArgs, alias_map \in AliasMapArgs :
          LET r == ReplaceAliasPlaceholders(sql, alias_map)
              IsPlaceholder(k) ==
                  sql[k].kind = "braces" /\ sql[k].v \in WordAliases
          IN  IF \E k \in 1 .. Len(sql) :
                     IsPlaceholder(k) /\ ~ResolvesToOne(sql, k, alias_map)
                THEN r.status = 400 /\ r.sql = <<>>
                ELSE /\ r.status = 200 /\ Len(r.sql) = Len(sql)
                     /\ \A k \in 1 .. Len(sql) :
                           r.sql[k] =
                               IF IsPlaceholder(k)
                                 THEN Text(IdText(alias_map[sql[k].v][1]))
                                 ELSE sql[k]
    /\ \A payload \in QueryPayloads, engineFails \in BOOLEAN :
          LET q   == QueryCall(db, payload, engineFails)
              res == ResolveMetricIdsFromSelectors(db, payload.selectors)
              rep == ReplaceAliasPlaceholders(payload.sql, res.alias_map)
          IN  IF payload.selectors = <<>>
                THEN /\ (q.status = 400 /\ q.detail # "engine")
                           => (payload.start_ts > payload.end_ts
                                  \/ payload.metric_ids = <<>>)
                     /\ (payload.start_ts <= payload.end_ts
                            /\ payload.metric_ids # <<>>)
                           => q.ran = payload.sql
                ELSE /\ (res.status = 200 /\ rep.status = 400)
                           => (q.status = 400 /\ q.ran = <<>>)
                     /\ q.ran # <<>>
                           => (q.ran = rep.sql /\ rep.status = 200)

\* A /query request with a selector has run with the placeholder replaced
\* by the one id its alias resolved to.
C24_Witness ==
    /\ last.op = "query" /\ last.ret.status = 200
    /\ \E id \in AllIds :
          /\ last.ret.alias_map = ("A" :> <<id>>)
          /\ last.ret.ran = <<Text("SELECT"), Text(IdText(id))>>

\* ---------------------------------------------------------------------
\* The SQL functions of the query engine (src/query_engine.py).
\*
\* A float64 is <<hi, lo>>, standing for hi * 2^53 + lo with lo small: the
\* integers below 2^53 in magnitude are exact, and from 2^53 on a double
\* holds only every second, from 2^54 on every fourth integer.  NULL
\* (Python's None) is <<>>, an int64 is <<n>>.

None == <<>>
Small(n) == <<0, n>>
\* 2^53, which float32 and float64 both hold exactly.
Big == <<1, 0>>

\* The distance between neighbouring doubles around hi * 2^53 + lo, hi >= 0.
Spacing(hi, lo) ==
    CASE hi = 0 -> 1
      [] hi = 1 -> IF lo >= 0 THEN 2 ELSE 1
      [] hi = 2 -> IF lo >= 0 THEN 4 ELSE 2
      [] OTHER  -> 4

\* lo rounded to the nearest multiple of s, a tie to the even multiple.
RoundTo(lo, s) ==
    LET q == lo \div s
        r == lo % s
    IN  IF 2 * r < s THEN q * s
        ELSE IF 2 * r > s THEN (q + 1) * s
        ELSE IF q % 2 = 0 THEN q * s ELSE (q + 1) * s

\* Round to nearest double, ties to even.
Round64(x) ==
    IF x[1] >= 0 THEN <<x[1], RoundTo(x[2], Spacing(x[1], x[2]))>>
    ELSE <<x[1], -RoundTo(-x[2], Spacing(-x[1], -x[2]))>>

\* The float operators +, - and < of Python.
F64Add(x, y) == Round64(<<x[1] + y[1], x[2] + y[2]>>)
F64Sub(x, y) == Round64(<<x[1] - y[1], x[2] - y[2]>>)
F64Less(x, y) == x[1] < y[1] \/ (x[1] = y[1] /\ x[2] < y[2])

\* x / n for an integer n > 0, kept as the quotient it is: <<hi, lo, n>>.
F64Div(x, n) == <<x[1], x[2], n>>

\* An argument of a scalar function: one value, or a pa.Array of values.
Scalar(v) == [array |-> FALSE, v |-> v]
Array(vs) == [array |-> TRUE, v |-> vs]

\* Mutant of RateValue: an unchanged value gives NULL.
RateValueZeroIsNull(c, p, b) ==
    IF c = None \/ p = None \/ b = None THEN None
    ELSE IF b[1] <= 0 THEN None
    ELSE LET delta == F64Sub(c, p)
         IN  IF ~F64Less(Small(0), delta) THEN None
             ELSE F64Div(delta, b[1])

\* bucket_rate.rate_value
RateValue(c, p, b) ==
    IF c = None \/ p = None \/ b = None THEN None
    ELSE IF b[1] <= 0 THEN None
    ELSE LET delta == F64Sub(c, p)
         IN  IF F64Less(delta, Small(0)) THEN None
             ELSE F64Div(delta, b[1])

\* x if it is an array, else [x] * n
Broadcast(x, n) == IF x.array THEN x.v ELSE [k \in 1 .. n |-> x.v]

\* zip() stops at the shortest list.
ZipLen(a, b, c) == Min(Len(a), Min(Len(b), Len(c)))

\* bucket_rate
BucketRate(curr, prev, bucket) ==
    IF curr.array
      THEN LET curr_list   == curr.v
               prev_list   == Broadcast(prev, Len(curr_list))
               bucket_list == Broadcast(bucket, Len(curr_list))
           IN  Array([k \in 1 .. ZipLen(curr_list, prev_list, bucket_list) |->
                        RateValue(curr_list[k], prev_list[k], bucket_list[k])])
      ELSE Scalar(RateValue(curr.v, prev.v, bucket.v))

\* _parse_int_arg(value, 1) followed by max(1, ...); w is <<n>> or None.
WindowArg(w) == IF w = None THEN 1 ELSE IF w[1] < 1 THEN 1 ELSE w[1]

\* RollingMeanWindow.evaluate_all: the loop from row k on.
RECURSIVE RollingMeanLoop(_, _, _, _, _, _, _)
RollingMeanLoop(series, k, window, window_vals, running_sum, running_count, out_list) ==
    IF k > Len(series) THEN out_list
    ELSE LET val    == series[k]
             vals1  == Append(window_vals, val)
             sum1   == IF val # None THEN F64Add(running_sum, val)
                       ELSE running_sum
             count1 == IF val # None THEN running_count + 1
                       ELSE running_count
             pops   == Len(vals1) > window
             old    == Head(vals1)
             vals2  == IF pops THEN Tail(vals1) ELSE vals1
             sum2   == IF pops /\ old # None THEN F64Sub(sum1, old) ELSE sum1
             count2 == IF pops /\ old # None THEN count1 - 1 ELSE count1
         IN  RollingMeanLoop(series, k + 1, window, vals2, sum2, count2,
                 Append(out_list, IF count2 = 0 THEN None
                             ELSE F64Div(sum2, count2)))

RollingMean(series, w) ==
    RollingMeanLoop(series, 1, WindowArg(w), <<>>, Small(0), 0, <<>>)

\* A call of bucket_rate and one of rolling_mean by the SQL engine; the
\* arguments are kept with the value returned.
BucketRateOp(curr, prev, bucket) ==
    /\ Finish("bucket_rate", Nil,
              Result(db, "", [curr |-> curr, prev |-> prev, bucket |-> bucket,
                              value |-> BucketRate(curr, prev, bucket)]))
    /\ UNCHANGED hist

RollingMeanOp(series, w) ==
    /\ Finish("rolling_mean", Nil,
              Result(db, "", [series |-> series, w |-> w,
                              value |-> RollingMean(series, w)]))
    /\ UNCHANGED hist

\* The columns and arguments the functions are applied to.
RateValues == {None, Small(0), Small(1), Small(3)}
BucketValues == {None, <<-1>>, <<0>>, <<1>>, <<2>>}
MeanValues == {None, Small(1), Small(2), Big}
RECURSIVE Columns(_, _)
Columns(V, n) ==
    IF n = 0 THEN {<<>>}
    ELSE Columns(V, n - 1)
         \cup {Append(c, v) : c \in {d \in Columns(V, n - 1) : Len(d) = n - 1},
                              v \in V}

\* LAG(value): the column moved down by one row.
Lag(c) == [k \in 1 .. Len(c) |-> IF k = 1 THEN None ELSE c[k - 1]]

\* UdfSpec: the SQL functions are applied to values and to columns of at
\* most MaxRows rows.
UdfNext ==
    \/ \E c \in RateValues, p \in RateValues, b \in BucketValues :
          nops < MaxUdfOps /\ BucketRateOp(Scalar(c), Scalar(p), Scalar(b))
    \/ \E c \in Columns(RateValues, MaxRows) \ {<<>>}, b \in BucketValues :
          nops < MaxUdfOps /\ BucketRateOp(Array(c), Array(Lag(c)), Scalar(b))
    \/ \E c \in Columns(RateValues, MaxRows) \ {<<>>}, b \in BucketValues :
          nops < MaxUdfOps /\ BucketRateOp(Array(c), Scalar(Small(1)), Scalar(b))
    \/ \E s \in Columns(MeanValues, MaxRows), w \in {None, <<0>>, <<1>>, <<2>>} :
          nops < MaxUdfOps /\ RollingMeanOp(s, w)

UdfSpec == Init /\ [][UdfNext]_vars

\* ---------------------------------------------------------------------
\* C25: bucket_rate.

\* The rows of a bucket_rate call: (curr, prev, b, value) per row.
RateRows(call) ==
    IF call.curr.array
      THEN {<<call.curr.v[k], Broadcast(call.prev, Len(call.curr.v))[k],
              call.bucket.v, call.value.v[k]>> : k \in 1 .. Len(call.curr.v)}
      ELSE {<<call.curr.v, call.prev.v, call.bucket.v, call.value.v>>}

RateIsNull(c, p, b) ==
    \/ c = None \/ p = None \/ b = None
    \/ b[1] <= 0
    \/ F64Less(c, p)

\* C25: bucket_rate(curr, prev, b) is NULL if and only if some argument is
\* NULL, b <= 0 or curr < prev, and (curr - prev) / b in every other case,
\* on every row of the columns it is given.
C25_BucketRateNullIff ==
    last.op = "bucket_rate" =>
        /\ last.ret.value.array = last.ret.curr.array
        /\ last.ret.curr.array =>
              Len(last.ret.value.v) = Len(last.ret.curr.v)
        /\ \A row \in RateRows(last.ret) :
              /\ row[4] = None <=> RateIsNull(row[1], row[2], row[3])
              /\ ~RateIsNull(row[1], row[2], row[3]) =>
                    row[4] = F64Div(F64Sub(row[1], row[2]), row[3][1])

\* bucket_rate was given a column whose second row repeats the first: the
\* first row, with no previous value, is NULL and the second is 0.
C25_Witness ==
    /\ last.op = "bucket_rate" /\ last.ret.curr.array
    /\ last.ret.curr.v = <<Small(3), Small(3)>>
    /\ last.ret.bucket.v = <<2>>
    /\ last.ret.value.v = <<None, <<0, 0, 2>>>>

\* ---------------------------------------------------------------------
\* C26: rolling_mean.

\* The rows max(1, i - w + 1) .. i of a column that hold a value (rows are
\* counted from 1 here, from 0 in SQL).
WindowRows(series, i, w) ==
    {k \in (IF i - w + 1 < 1 THEN 1 ELSE i - w + 1) .. i : series[k] # None}

\* The sum of the values of the rows K, as a real number.
RECURSIVE ExactSum(_, _)
ExactSum(series, K) ==
    IF K = {} THEN <<0, 0>>
    ELSE LET k    == CHOOSE x \in K : TRUE
             rest == ExactSum(series, K \ {k})
         IN  <<series[k][1] + rest[1], series[k][2] + rest[2]>>

\* The arithmetic mean of the values in the window of row i: their sum, as
\* the nearest double, over their number; NULL when the window has none.
WindowMean(series, i, w) ==
    LET K == WindowRows(series, i, w)
    IN  IF K = {} THEN None
        ELSE F64Div(Round64(ExactSum(series, K)), Cardinality(K))

\* C26: for every w >= 1 and every row i, rolling_mean(value, w) is the
\* arithmetic mean of the non-NULL values among the rows max(0, i-w+1)..i,
\* and NULL exactly when all those rows are NULL.
C26_RollingMeanIsWindowMean ==
    (last.op = "rolling_mean" /\ last.ret.w # None) =>
        (last.ret.w[1] >= 1 =>
            /\ Len(last.ret.value) = Len(last.ret.series)
            /\ \A i \in 1 .. Len(last.ret.series) :
                  /\ last.ret.value[i] = None
                        <=> WindowRows(last.ret.series, i, last.ret.w[1]) = {}
                  /\ last.ret.value[i]
                        = WindowMean(last.ret.series, i, last.ret.w[1]))

\* ---------------------------------------------------------------------
\* C27: the meta of a metric.

\* MetaSpec: metric 1 and the metric named "a" are registered, written to
\* and read with every type and retention, so that calls meet a stored meta
\* that differs from theirs; the metrics are also looked up, deleted and
\* rewritten.
MetaNext ==
    \/ \E id \in MetricIds, typ \in Typs, r \in RetentionArgs, name \in {"", "a"} :
          nops < MaxMetaOps /\ EnsureMetric(id, typ, r[1], r[2], name, {})
    \/ \E id \in {Nil, 1}, typ \in Typs, r \in RetentionArgs :
          nops < MaxMetaOps /\ EnsureMetricDescriptor(id, typ, r[1], r[2], "a", {})
    \/ \E id \in {Nil, 1}, ts \in {0, 1}, r \in RetentionArgs :
          nops < MaxMetaOps
          /\ WriteGauge(id, ts, 5, IF id = Nil THEN "a" ELSE "", {}, r[1], r[2])
    \/ \E id \in {Nil, 1}, ts \in {0, 1}, r \in RetentionArgs :
          nops < MaxMetaOps
          /\ WriteCounter(id, ts, 7, IF id = Nil THEN "a" ELSE "", {}, r[1], r[2])
    \/ \E id \in MetricIds :
          nops < MaxMetaOps /\ ReadRangeOp(id, 0, MaxTs)
    \/ \E tags \in {{}, {<<"env", "qa">>}} :
          nops < MaxMetaOps /\ FindMetricsOp("a", tags, 0)
    \/ nops < MaxMetaOps /\ DeleteMetric(1)
    \/ nops < MaxMetaOps /\ RewriteMetricRetention(1, 2, 2)

MetaSpec == Init /\ [][MetaNext]_vars

\* The operations that leave every meta as it is.
MetaKeepingOps ==
    {"ensure_metric", "ensure_metric_descriptor", "write_gauge",
     "write_counter", "read_range", "find_metrics"}

\* C27: (type, step, slots) of a metric is immutable: a metric that has a
\* meta before a call of ensure_metric, ensure_metric_descriptor,
\* write_gauge, write_counter, read_range or find_metrics has the identical
\* meta after it, whether the call succeeds or fails.
C27_MetaImmutable ==
    [][last'.op \in MetaKeepingOps =>
          \A id \in AllIds :
              db.meta[id] # Absent => db'.meta[id] = db.meta[id]]_vars

\* A counter write with the default retention was refused on metric 1, a
\* gauge of step 2 and 2 slots, whose meta is still the one registered.
C27_Witness ==
    /\ last.op = "write_counter" /\ last.err # ""
    /\ db.meta[1] = <<2, 2, 0>>

\* ---------------------------------------------------------------------
\* C28: _segments_for.

\* A call of _segments_for; the arguments are kept with the list returned.
SegmentsForOp(start_slot, count, slots) ==
    /\ Finish("segments_for", Nil,
              Result(db, "", [start_slot |-> start_slot, count |-> count,
                              slots |-> slots,
                              segments |-> SegmentsFor(start_slot, count, slots)]))
    /\ UNCHANGED hist

\* SegSpec: _segments_for is applied once to every start slot of every
\* ring of up to MaxSegSlots slots, with counts from 0 to one more than the
\* ring holds.
SegNext ==
    \E slots \in 1 .. MaxSegSlots :
        \E start_slot \in 0 .. slots - 1, count \in 0 .. slots + 1 :
            nops < 1 /\ SegmentsForOp(start_slot, count, slots)

SegSpec == Init /\ [][SegNext]_vars

\* The slots of the inclusive range seg.
SegmentSlots(seg) == seg[1] .. seg[2]

\* C28: for slots >= 1, 0 <= start_slot < slots and 1 <= count <= slots,
\* _segments_for returns one or two inclusive ranges that are disjoint, lie
\* within 0 .. slots-1 and together hold exactly the count slots
\* (start_slot + i) mod slots, 0 <= i < count; they are two ranges exactly
\* when start_slot + count > slots.
C28_SegmentsCoverWindow ==
    last.op = "segments_for" =>
        LET a    == last.ret
            segs == a.segments
        IN  (a.slots >= 1 /\ 0 <= a.start_slot /\ a.start_slot < a.slots
                /\ 1 <= a.count /\ a.count <= a.slots) =>
              /\ Len(segs) \in {1, 2}
              /\ \A k \in 1 .. Len(segs) :
                    /\ segs[k][1] <= segs[k][2]
                    /\ SegmentSlots(segs[k]) \subseteq 0 .. a.slots - 1
              /\ Len(segs) = 2 => SegmentSlots(segs[1]) \cap SegmentSlots(segs[2]) = {}
              /\ UNION {SegmentSlots(segs[k]) : k \in 1 .. Len(segs)}
                    = {(a.start_slot + i) % a.slots : i \in 0 .. a.count - 1}
              /\ Cardinality(UNION {SegmentSlots(segs[k]) : k \in 1 .. Len(segs)})
                    = a.count
              /\ Len(segs) = 2 <=> a.start_slot + a.count > a.slots

\* Two slots from slot 2 of a ring of 3: the last slot, then slot 0.
C28_Witness ==
    /\ last.op = "segments_for"
    /\ last.ret.slots = 3 /\ last.ret.start_slot = 2 /\ last.ret.count = 2
    /\ last.ret.segments = << <<2, 2>>, <<0, 0>> >>

\* ---------------------------------------------------------------------
\* C29: read_range against a scan of the whole ring.

\* ScanSpec: one gauge with a ring of 2 or 3 slots and step 1 or 2 is
\* written at any timestamps in any order, read over short and long ranges
\* and deleted.
ScanNext ==
    \/ \E ts \in Timestamps, r \in RingRetentionArgs :
          nops < MaxScanOps /\ WriteGauge(1, ts, 5, "", {}, r[1], r[2])
    \/ \E s \in {0, 1}, e \in {1, MaxTs} :
          nops < MaxScanOps /\ ReadRangeOp(1, s, e)
    \/ nops < MaxScanOps /\ DeleteMetric(1)

ScanSpec == Init /\ [][ScanNext]_vars

\* Every valid record of the metric with start_ts <= window * step <= end_ts,
\* whatever its slot, as rows sorted by ts.
FullScan(store, id, start_ts, end_ts) ==
    SortRows(RowsOf(GetRange(BeginTr(store), id, 0, MaxSlots - 1),
                    start_ts, end_ts, store.meta[id][3], store.meta[id][1]))

StrictlyIncreasing(rows) ==
    \A i \in 1 .. Len(rows) - 1 : rows[i][1] < rows[i + 1][1]

\* The range ends read_range is called with.
ScanTimes == {-1} \cup ReadTimes

\* C29: for every ring content reached by writes and every
\* start_ts <= end_ts, read_range, which scans only the computed slot
\* segments, returns the list of all valid slot records of the metric with
\* start_ts <= window * step <= end_ts, sorted by ts with strictly
\* increasing timestamps: scanning only the segments drops no record that
\* passes the timestamp filter.
C29_ReadIsFilteredFullScan ==
    \A id \in {i \in AllIds : Exists(i)} :
        \A s \in ScanTimes, e \in ScanTimes :
            s <= e =>
                LET rows == ReadRange(db, id, s, e)
                IN  /\ rows = FullScan(db, id, s, e)
                    /\ StrictlyIncreasing(rows)

\* A read returned one of the two records the ring holds.
C29_Witness ==
    /\ Exists(1) /\ last.op = "read_range"
    /\ Len(last.ret) = 1 /\ Len(FullRead(1)) = 2

\* ---------------------------------------------------------------------
\* C30: the id counter.

\* The step commits an allocation: a call without a metric_id found its
\* name unbound and left it bound (the transaction that allocates the id is
\* the one that binds the name; every such call of MetaSpec names "a").
CommitsAllocation ==
    /\ last'.op \in {"ensure_metric_descriptor", "write_gauge", "write_counter"}
    /\ last'.id = Nil
    /\ db.desc[<<"a", {}>>] = Nil
    /\ db'.desc[<<"a", {}>>] # Nil

\* C30: over every sequence of operations, delete_metric and
\* rewrite_metric_retention included, the stored id counter never
\* decreases; each committed allocation increases it by exactly one and
\* returns its new value, and nothing else changes it, so that the ids of
\* successive committed allocations are 1, 2, ...: pairwise distinct and
\* strictly increasing from 1.
C30_IdCounterMonotonic ==
    [][/\ db'.ctr >= db.ctr
       /\ CommitsAllocation =>
             /\ db'.ctr = db.ctr + 1
             /\ last'.ret = db'.ctr
             /\ db'.desc[<<"a", {}>>] = db'.ctr
       /\ ~CommitsAllocation => db'.ctr = db.ctr]_vars

\* The second allocation, made after the first metric was deleted, returned 2.
C30_Witness ==
    /\ last.op = "ensure_metric_descriptor" /\ last.id = Nil /\ last.err = ""
    /\ last.ret = 2 /\ db.ctr = 2
    /\ db.meta[1] = Absent

\* ---------------------------------------------------------------------
\* C31: the id handed out by the counter.

\* C31: an id allocated from the counter is new: when a call without
\* metric_id for an unbound (name, tags) returns id X, no metric with id X
\* existed before the call, so the name is never attached to a metric that
\* was already there.
C31_AllocatedIdIsNew ==
    [][CommitsAllocation => db.meta[last'.ret] = Absent]_vars

\* ---------------------------------------------------------------------
\* rewrite_metric_retention, one transaction at a time.
\*
\* Caller "p" runs rewrite_metric_retention(1, 2, 2); each of its
\* transactions is one step and takes effect when it commits.  tx["p"].op
\* is the transaction it runs next, tx["p"].args its local variables:
\* meta, name and tags as loaded first, read_meta and rows of its
\* read_range, del_name and del_tags of its delete_metric, k the next row
\* to replay.  snapAt and delAt are the numbers of sample writes of other
\* callers that had returned when the snapshot was read and when the delete
\* committed (delAt is -1 before the delete), delOps the number of calls of
\* other callers that had ended when the delete committed.  Between its
\* steps other callers make whole calls.

RwLocals(id, step, slots, meta) ==
    [id |-> id, step |-> step, slots |-> slots, meta |-> meta,
     name |-> "", tags |-> {}, read_meta |-> Absent, rows |-> <<>>,
     del_name |-> "", del_tags |-> {}, k |-> 1, snapAt |-> 0, delAt |-> -1,
     delOps |-> 0]

RwGoto(pc, locals) ==
    /\ tx' = [tx EXCEPT !["p"] = [NoTx EXCEPT !.op = pc, !.args = locals]]
    /\ UNCHANGED out

\* rewrite_metric_retention returns (err = "") or raises.
RwEnd(err, locals) ==
    /\ tx' = [tx EXCEPT !["p"] = NoTx]
    /\ out' = [out EXCEPT !["p"] =
                 Append(@, [op |-> "rewrite_metric_retention",
                            args |-> locals, err |-> err, ret |-> Nil,
                            with |-> {}, fresh |-> FALSE])]

RwCommit(store) ==
    /\ db' = store
    /\ first' = [d \in DescKeys |->
                   IF first[d] = Nil THEN store.desc[d] ELSE first[d]]

\* meta = self._load_meta(metric_id), after the argument check.
RwLoadMeta(id, step, slots) ==
    /\ ~InFlight("p") /\ out["p"] = <<>>
    /\ step > 0 /\ slots > 0
    /\ RwGoto("rw_load_info",
              RwLocals(id, step, slots, LoadMetaTr(BeginTr(db), id)))
    /\ UNCHANGED <<db, last, nops, hist, first>>

\* info = self._load_meta_info(metric_id), then the checks of meta.
RwLoadInfo ==
    /\ tx["p"].op = "rw_load_info"
    /\ LET l    == tx["p"].args
           info == LoadMetaInfoTr(BeginTr(db), l.id)
       IN  IF l.meta = Absent THEN RwEnd("metric not found", l)
           ELSE IF l.meta[3] # 0 THEN RwEnd("only gauge metrics", l)
           ELSE RwGoto("rw_read_meta",
                       [l EXCEPT !.name = IF info = Absent THEN "" ELSE info[1],
                                 !.tags = IF info = Absent THEN {} ELSE info[2]])
    /\ UNCHANGED <<db, last, nops, hist, first>>

\* read_range(metric_id, 0, 2**63 - 1) up to its scan.
RwReadMeta ==
    /\ tx["p"].op = "rw_read_meta"
    /\ LET l    == tx["p"].args
           meta == LoadMetaTr(BeginTr(db), l.id)
       IN  IF RangeSegments(meta, 0, FullRangeEnd) = <<>>
             THEN RwGoto("rw_del_info",
                         [l EXCEPT !.read_meta = meta,
                                   !.snapAt = Len(hist[l.id])])
             ELSE RwGoto("rw_scan", [l EXCEPT !.read_meta = meta])
    /\ UNCHANGED <<db, last, nops, hist, first>>

\* The scan of that read_range: rows is the snapshot.
RwScan ==
    /\ tx["p"].op = "rw_scan"
    /\ LET l == tx["p"].args
       IN  RwGoto("rw_del_info",
                  [l EXCEPT !.rows =
                               ScanSegments(BeginTr(db), l.id,
                                   RangeSegments(l.read_meta, 0, FullRangeEnd),
                                   0, FullRangeEnd, l.read_meta[3],
                                   l.read_meta[1]).ret,
                            !.snapAt = Len(hist[l.id])])
    /\ UNCHANGED <<db, last, nops, hist, first>>

\* delete_metric: info = self._load_meta_info(metric_id)
RwDelInfo ==
    /\ tx["p"].op = "rw_del_info"
    /\ LET l    == tx["p"].args
           info == LoadMetaInfoTr(BeginTr(db), l.id)
       IN  RwGoto("rw_delete",
                  [l EXCEPT !.del_name = IF info = Absent THEN "" ELSE info[1],
                            !.del_tags = IF info = Absent THEN {} ELSE info[2]])
    /\ UNCHANGED <<db, last, nops, hist, first>>

\* delete_metric: its clearing transaction.
RwDelete ==
    /\ tx["p"].op = "rw_delete"
    /\ LET l == tx["p"].args
       IN  /\ RwCommit(RunTransaction(db,
                  DeleteMetricTxn(BeginTr(db), l.id, l.del_name, l.del_tags)).s)
           /\ RwGoto("rw_ensure", [l EXCEPT !.delAt = Len(hist[l.id]),
                                       !.delOps = nops])
    /\ UNCHANGED <<last, nops, hist>>

\* ensure_metric_descriptor(metric_id, typ, step, slots, name, tags) with
\* the new retention; with no rows to replay the rewrite returns.
RwEnsure ==
    /\ tx["p"].op = "rw_ensure"
    /\ LET l == tx["p"].args
           e == EnsureMetricDescriptorCall(db, l.id, l.meta[3], l.step,
                                           l.slots, l.name, l.tags)
       IN  /\ RwCommit(e.s)
           /\ IF e.err # "" THEN RwEnd(e.err, l)
              ELSE IF l.rows = <<>> THEN RwEnd("", l)
              ELSE RwGoto("rw_replay", l)
    /\ UNCHANGED <<last, nops, hist>>

\* self._write_value(metric_id, ts, val) for the next row; after the last
\* row the rewrite returns.
RwReplay ==
    /\ tx["p"].op = "rw_replay"
    /\ LET l == tx["p"].args
           w == RunTransaction(db,
                    WriteValueTxn(BeginTr(db), l.id, l.rows[l.k][1],
                                  l.rows[l.k][2]))
       IN  /\ RwCommit(w.s)
           /\ IF w.err # "" THEN RwEnd(w.err, l)
              ELSE IF l.k = Len(l.rows) THEN RwEnd("", [l EXCEPT !.k = l.k + 1])
              ELSE RwGoto("rw_replay", [l EXCEPT !.k = l.k + 1])
    /\ UNCHANGED <<last, nops, hist>>

\* The timestamps and values the other callers write.
RaceTimes == {0, 1, 2}

\* RewriteRaceSpec: other callers create gauge 1 with the default retention
\* and write to it, register it and read it, before, during and after one
\* rewrite of its retention to step 2 and 2 slots.
RewriteRaceNext ==
    \/ \E ts \in RaceTimes, v \in Values :
          nops < MaxRaceOps /\ WriteGauge(1, ts, v, "", {}, 0, 0)
    \/ nops < MaxRaceOps /\ EnsureMetric(1, 0, 0, 0, "", {})
    \/ nops < MaxRaceOps /\ ReadRangeOp(1, 0, FullRangeEnd)
    \/ RwLoadMeta(1, 2, 2)
    \/ RwLoadInfo
    \/ RwReadMeta
    \/ RwScan
    \/ RwDelInfo
    \/ RwDelete
    \/ RwEnsure
    \/ RwReplay

RewriteRaceSpec == Init /\ [][RewriteRaceNext]_vars

\* ---------------------------------------------------------------------
\* C32: the rewrite is not atomic.

RwStarted == InFlight("p") \/ out["p"] # <<>>

\* The local variables of the rewrite, in flight or ended.
RwView == IF InFlight("p") THEN tx["p"].args ELSE out["p"][1].args

\* row is one of the first k - 1 rows of the snapshot, as replayed.
FromSnapshot(row, l) ==
    \E i \in 1 .. l.k - 1 :
        /\ row[1] = AlignedTs(l.rows[i][1], StepOf(l.id))
        /\ row[2] = l.rows[i][2]

\* row is a sample another caller wrote after the rewrite's delete.
FromLaterWrite(row, l) ==
    \E j \in l.delAt + 1 .. Len(hist[l.id]) :
        /\ row[1] = AlignedTs(hist[l.id][j][1], StepOf(l.id))
        /\ row[2] = hist[l.id][j][2]

\* C32: retention rewrite is not atomic.  From the commit of its delete
\* on, while it runs and after it has returned, the metric holds nothing
\* but the part of the snapshot replayed so far (none of it, and possibly
\* no meta, before the re-create) and the samples written after the
\* delete: a concurrent reader sees these intermediate states, and a
\* write_gauge that returned between the snapshot read and the delete is
\* in no read issued after the rewrite returns.
C32_RewriteNotAtomic ==
    RwStarted =>
        (RwView.delAt >= 0 =>
            /\ tx["p"].op = "rw_ensure" /\ RwView.delOps = nops
                   => db.meta[RwView.id] = Absent
            /\ \A row \in SeqToSet(FullRead(RwView.id)) :
                  FromSnapshot(row, RwView) \/ FromLaterWrite(row, RwView))

\* The rewrite has returned, its snapshot replayed; a sample another
\* caller wrote between the snapshot read and the delete, its write_gauge
\* returning the id, is not in the read of the whole range made afterwards.
C32_Witness ==
    /\ ~InFlight("p") /\ out["p"] # <<>>
    /\ out["p"][1].err = "" /\ out["p"][1].args.rows # <<>>
    /\ last.op = "read_range" /\ last.ret = FullRead(1) /\ last.ret # <<>>
    /\ \E j \in out["p"][1].args.snapAt + 1 .. out["p"][1].args.delAt :
          \A row \in SeqToSet(last.ret) : row[2] # hist[1][j][2]

\* ---------------------------------------------------------------------
\* C33: the snapshot of a rewrite that raises.

\* The step ends the rewrite.
RwEnds == out["p"] = <<>> /\ out'["p"] # <<>>

\* C33: under every interleaving with write_gauge and ensure calls of other
\* callers on the same id, a rewrite either returns, its snapshot replayed
\* into the new ring, or, if it raises, leaves the samples it had
\* snapshotted stored: it never ends with the snapshot discarded.
C33_SnapshotNeverDiscarded ==
    [][RwEnds =>
          \/ out'["p"][1].err = ""
          \/ \A row \in SeqToSet(out'["p"][1].args.rows) :
                \E r \in SeqToSet(ReadRange(db', 1, 0, FullRangeEnd)) :
                    /\ r[2] = row[2]
                    /\ r[1] = AlignedTs(row[1], db'.meta[1][1])]_vars

\* ---------------------------------------------------------------------
\* read_range, one transaction at a time.
\*
\* Caller "p" runs read_range(1, 0, MaxTs): the meta load and the slot scan
\* are two transactions, and other callers make whole calls in between.
\* out["p"] receives the rows returned; out["q"] lists the sample writes of
\* the other callers that returned, each with the step and type the metric
\* had when the sample was stored.

\* read_range up to its scan transaction.
RdLoadMeta(id, start_ts, end_ts) ==
    /\ ~InFlight("p") /\ out["p"] = <<>>
    /\ LET meta == LoadMetaTr(BeginTr(db), id)
           l    == [id |-> id, start_ts |-> start_ts, end_ts |-> end_ts,
                    meta |-> meta]
       IN  IF RangeSegments(meta, start_ts, end_ts) = <<>>
             THEN /\ tx' = tx
                  /\ out' = [out EXCEPT !["p"] =
                               Append(@, [op |-> "read_range", args |-> l,
                                          err |-> "", ret |-> <<>>,
                                          with |-> {}, fresh |-> FALSE])]
             ELSE /\ tx' = [tx EXCEPT !["p"] =
                              [NoTx EXCEPT !.op = "rd_scan", !.args = l]]
                  /\ out' = out
    /\ UNCHANGED <<db, last, nops, hist, first>>

\* The scan transaction of read_range, with the meta loaded before.
RdScan ==
    /\ tx["p"].op = "rd_scan"
    /\ LET l == tx["p"].args
       IN  out' = [out EXCEPT !["p"] =
                     Append(@, [op |-> "read_range", args |-> l, err |-> "",
                                ret |-> ScanSegments(BeginTr(db), l.id,
                                            RangeSegments(l.meta, l.start_ts,
                                                          l.end_ts),
                                            l.start_ts, l.end_ts, l.meta[3],
                                            l.meta[1]).ret,
                                with |-> {}, fresh |-> FALSE])]
    /\ tx' = [tx EXCEPT !["p"] = NoTx]
    /\ UNCHANGED <<db, last, nops, hist, first>>

\* write_gauge by caller "q".
WriteGaugeBy(metric_id, ts, value, stepArg, slotsArg) ==
    LET res == WriteCall(db, 0, metric_id, ts, value, "", {}, stepArg, slotsArg)
    IN  /\ db' = res.s
        /\ last' = [op |-> "write_gauge", id |-> metric_id, err |-> res.err,
                    ret |-> res.ret]
        /\ nops' = nops + 1
        /\ first' = [d \in DescKeys |->
                       IF first[d] = Nil THEN res.s.desc[d] ELSE first[d]]
        /\ hist' = IF res.err = ""
                     THEN [hist EXCEPT ![res.ret] = Append(@, <<ts, value>>)]
                     ELSE hist
        /\ out' = IF res.err = ""
                    THEN [out EXCEPT !["q"] =
                            Append(@, [op |-> "write_gauge",
                                       args |-> <<ts, value,
                                                  res.s.meta[res.ret][1],
                                                  res.s.meta[res.ret][3]>>,
                                       err |-> "", ret |-> res.ret,
                                       with |-> {}, fresh |-> FALSE])]
                    ELSE out
        /\ UNCHANGED tx

\* ReadRaceSpec: while one read_range of gauge 1 runs, other callers write
\* to the gauge with the default retention and with step 2 and 2 slots, and
\* delete it.
ReadRaceNext ==
    \/ \E ts \in RaceTimes, v \in Values, r \in RetentionArgs :
          nops < MaxRaceOps /\ WriteGaugeBy(1, ts, v, r[1], r[2])
    \/ nops < MaxRaceOps /\ DeleteMetric(1)
    \/ RdLoadMeta(1, 0, MaxTs)
    \/ RdScan

ReadRaceSpec == Init /\ [][ReadRaceNext]_vars

\* ---------------------------------------------------------------------
\* C34: the metadata read_range decodes with.

\* C34: under every interleaving, every sample (ts, value, type) read_range
\* returns equals (floor(t/step)*step, v, type) for a committed write
\* (t, v) made while the metric had that step and type, also when a
\* delete_metric and a re-creation of the id commit between the meta load
\* and the slot scan of the read.
C34_DecodedAsWritten ==
    \A i \in 1 .. Len(out["p"]) :
        \A row \in SeqToSet(out["p"][i].ret) :
            \E j \in 1 .. Len(out["q"]) :
                LET w == out["q"][j].args
                IN  row = <<AlignedTs(w[1], w[3]), w[2], w[4]>>

\* ---------------------------------------------------------------------
\* C35: descriptor bindings and the metrics they name.

\* C35: no dangling descriptors: in every state reached by ensure_metric,
\* ensure_metric_descriptor, writes, delete_metric and
\* rewrite_metric_retention each descriptor binding (name, tags) -> id
\* names a metric whose meta exists.
C35_NoDanglingDescriptor ==
    \A d \in DescKeys :
        db.desc[d] # Nil => db.meta[db.desc[d]] # Absent

\* ---------------------------------------------------------------------
\* C36: the identity of a metric.

\* C36: no two existing metrics carry the same identity: in every
\* reachable state no two distinct metric ids have a meta-info with the
\* same non-empty name and the identical tag set.
C36_NoSharedIdentity ==
    \A A \in AllIds, B \in AllIds :
        (/\ A < B /\ Exists(A) /\ Exists(B)
         /\ db.info[A] # Absent /\ db.info[B] # Absent) =>
            (db.info[A][1] # "" => db.info[A] # db.info[B])

\* ---------------------------------------------------------------------
\* C37: a sample write that raises.
FailedWrite ==
    /\ nops' = nops + 1
    /\ last'.op \in {"write_gauge", "write_counter"}
    /\ last'.err # ""

\* C37: a failed sample write leaves no partial state: whenever write_gauge
\* or write_counter raises, the store equals the store before the call.
C37_FailedWriteLeavesStore == [][FailedWrite => db' = db]_vars

\* ---------------------------------------------------------------------
\* C38: a write by id with step and slots omitted.

\* C38: write_gauge(metric_id, ts, value) and write_counter(metric_id, ts,
\* raw_value) with step and slots omitted succeed for every existing
\* metric of the matching type, whatever retention the metric was created
\* with, and return the id.
C38_WriteByIdNeedsNoRetention ==
    \A id \in MetricIds, ts \in {0, 1} :
        Exists(id) =>
            LET w == WriteCall(db, TypOf(id), id, ts, 5, "", {}, 0, 0)
            IN  w.err = "" /\ w.ret = id

\* ---------------------------------------------------------------------
\* The window functions diff, period_diff and counter_rate.

\* _parse_int_arg(value, default): the first element of an array, the
\* default for an empty array and for NULL, whose int() raises TypeError.
ParseIntArg(value, default) ==
    IF value.array /\ Len(value.v) = 0 THEN default
    ELSE LET first_val == IF value.array THEN value.v[1] ELSE value.v
         IN  IF first_val = None THEN default ELSE first_val[1]

\* DiffWindow.evaluate_all (rows are counted from 1 here, idx = k - 1).
Diff(series, periodsArg) ==
    LET parsed  == ParseIntArg(periodsArg, 1)
        periods == IF parsed < 1 THEN 1 ELSE parsed
    IN  [k \in 1 .. Len(series) |->
            IF k - 1 < periods \/ series[k] = None THEN None
            ELSE LET prev == series[k - periods]
                 IN  IF prev = None THEN None ELSE F64Sub(series[k], prev)]

\* Mutant of PeriodDiff: the periods argument is not floored at 1.
PeriodDiffNoFloor(series, periodsArg) ==
    LET periods == ParseIntArg(periodsArg, 1)
    IN  [k \in 1 .. Len(series) |->
            IF k - 1 < periods \/ series[k] = None THEN None
            ELSE LET prev == series[IF periods < 0 THEN k ELSE k - periods]
                 IN  IF prev = None THEN None ELSE F64Sub(series[k], prev)]

\* PeriodDiffWindow.evaluate_all
PeriodDiff(series, periodsArg) ==
    LET parsed  == ParseIntArg(periodsArg, 1)
        periods == IF parsed < 1 THEN 1 ELSE parsed
    IN  [k \in 1 .. Len(series) |->
            IF k - 1 < periods \/ series[k] = None THEN None
            ELSE LET prev == series[k - periods]
                 IN  IF prev = None THEN None ELSE F64Sub(series[k], prev)]

\* Mutant of CounterRate: the previous row is the last row with a value.
CounterRateSkipsNull(counters, timestamps) ==
    [k \in 1 .. Len(counters) |->
        LET K == {j \in 1 .. k - 1 : counters[j] # None}
        IN  IF K = {} THEN None
            ELSE LET j    == CHOOSE x \in K : \A y \in K : y <= x
                     curr == counters[k]
                     t1   == timestamps[k]
                     prev == counters[j]
                     t0   == timestamps[j]
                 IN  IF curr = None \/ t1 = None \/ t0 = None THEN None
                     ELSE IF t1[1] <= t0[1] \/ F64Less(curr, prev) THEN None
                     ELSE F64Div(F64Sub(curr, prev), t1[1] - t0[1])]

\* CounterRateWindow.evaluate_all
CounterRate(counters, timestamps) ==
    [k \in 1 .. Len(counters) |->
        IF k = 1 THEN None
        ELSE LET curr == counters[k]
                 t1   == timestamps[k]
                 prev == counters[k - 1]
                 t0   == timestamps[k - 1]
             IN  IF None \in {curr, prev, t1, t0} THEN None
                 ELSE IF t1[1] <= t0[1] \/ F64Less(curr, prev) THEN None
                 ELSE F64Div(F64Sub(curr, prev), t1[1] - t0[1])]

\* A query that selects diff and period_diff of one column with the same
\* periods argument, and one that selects counter_rate; the arguments are
\* kept with the columns returned.
DiffOp(series, periodsArg) ==
    /\ Finish("diff", Nil,
              Result(db, "", [series |-> series, periods |-> periodsArg,
                              diff |-> Diff(series, periodsArg),
                              period_diff |-> PeriodDiff(series, periodsArg)]))
    /\ UNCHANGED hist

CounterRateOp(counters, timestamps) ==
    /\ Finish("counter_rate", Nil,
              Result(db, "", [counters |-> counters, timestamps |-> timestamps,
                              value |-> CounterRate(counters, timestamps)]))
    /\ UNCHANGED hist

\* The partitions and arguments the window functions are applied to.
PeriodsValues == {None, <<-1>>, <<0>>, <<1>>, <<2>>}
RateSamples == {None, Small(0), Small(1), Small(3)} \X {None, <<0>>, <<1>>, <<3>>}
ColumnOf(rows, c) == [k \in 1 .. Len(rows) |-> rows[k][c]]

\* WindowSpec: one query applies the window functions to a partition of at
\* most MaxWindowRows rows; the periods argument reaches the function as a
\* column that repeats the argument on every row, or as one value.
WindowNext ==
    \/ /\ last.op = "none"
       /\ \E s \in Columns(MeanValues, MaxWindowRows), p \in PeriodsValues :
             DiffOp(s, Array([k \in 1 .. Len(s) |-> p]))
    \/ /\ last.op = "none"
       /\ \E s \in Columns(MeanValues, MaxWindowRows), p \in PeriodsValues :
             DiffOp(s, Scalar(p))
    \/ /\ last.op = "none"
       /\ \E rows \in Columns(RateSamples, MaxWindowRows) :
             CounterRateOp(ColumnOf(rows, 1), ColumnOf(rows, 2))

WindowSpec == Init /\ [][WindowNext]_vars

\* ---------------------------------------------------------------------
\* C39: counter_rate.

\* Row i of a counter_rate call has no rate: it is the first row, one of
\* the four operands is NULL, time did not advance, or the counter fell.
RateRowIsNull(value, ts, i) ==
    \/ i = 1
    \/ value[i] = None \/ value[i - 1] = None
    \/ ts[i] = None \/ ts[i - 1] = None
    \/ ts[i][1] <= ts[i - 1][1]
    \/ F64Less(value[i], value[i - 1])

\* C39: counter_rate(value, ts) is NULL for the first row and for every
\* row i where value[i], value[i-1], ts[i] or ts[i-1] is NULL, ts[i] <=
\* ts[i-1] or value[i] < value[i-1]; for every other row it is
\* (value[i] - value[i-1]) / (ts[i] - ts[i-1]), computed from the row
\* immediately before, also when that row is NULL.
C39_CounterRate ==
    last.op = "counter_rate" =>
        /\ Len(last.ret.value) = Len(last.ret.counters)
        /\ \A i \in 1 .. Len(last.ret.counters) :
              IF RateRowIsNull(last.ret.counters, last.ret.timestamps, i)
                THEN last.ret.value[i] = None
                ELSE last.ret.value[i]
                       = F64Div(F64Sub(last.ret.counters[i],
                                       last.ret.counters[i - 1]),
                                last.ret.timestamps[i][1]
                                  - last.ret.timestamps[i - 1][1])

\* counter_rate over three rows whose second row has no value: the third
\* row is NULL although the first row holds a smaller value, and a
\* partition whose rows all hold values has the rate 2 / 1 on its second.
C39_Witness ==
    /\ last.op = "counter_rate"
    /\ last.ret.counters = <<Small(1), None, Small(3)>>
    /\ last.ret.timestamps = <<<<0>>, <<1>>, <<3>>>>
    /\ last.ret.value = <<None, None, None>>
    /\ CounterRate(<<Small(1), Small(3)>>, <<<<0>>, <<1>>>>)
          = <<None, <<0, 2, 1>>>>

\* ---------------------------------------------------------------------
\* C40: diff and period_diff.

\* The periods value a call was given: the first row of the argument
\* column, NULL when there is none.
PeriodsGiven(periodsArg) ==
    IF ~periodsArg.array THEN periodsArg.v
    ELSE IF periodsArg.v = <<>> THEN None ELSE periodsArg.v[1]

\* max(1, periods), periods defaulting to 1.
PeriodsUsed(periodsArg) ==
    LET given == PeriodsGiven(periodsArg)
    IN  IF given = None THEN 1 ELSE IF given[1] > 1 THEN given[1] ELSE 1

\* C40: diff and period_diff return identical outputs for every partition
\* and every periods argument, missing, NULL, zero, negative or positive:
\* value[i] - value[i-p] with p = max(1, periods), periods defaulting to
\* 1, and NULL when i < p or either endpoint is NULL (rows counted from 0).
C40_DiffIsPeriodDiff ==
    last.op = "diff" =>
        LET series == last.ret.series
            p      == PeriodsUsed(last.ret.periods)
        IN  /\ last.ret.diff = last.ret.period_diff
            /\ Len(last.ret.diff) = Len(series)
            /\ \A k \in 1 .. Len(series) :
                  last.ret.diff[k] =
                     IF k - 1 < p THEN None
                     ELSE IF series[k] = None \/ series[k - p] = None THEN None
                     ELSE F64Sub(series[k], series[k - p])

\* Both functions were applied to three rows with periods 0, which counts
\* as 1: the first row is NULL, the others are the steps from the row
\* before, 2 - 1 and 2^53 - 2.
C40_Witness ==
    /\ last.op = "diff"
    /\ last.ret.series = <<Small(1), Small(2), Big>>
    /\ PeriodsGiven(last.ret.periods) = <<0>>
    /\ last.ret.diff = <<None, Small(1), <<1, -2>>>>
    /\ last.ret.period_diff = last.ret.diff

====
